---- MODULE Spec2Model ----
(***************************************************************************)
(* SplitXpense synchronisation core.                                       *)
(*                                                                         *)
(* Every client (one browser, one current user) runs the functions of      *)
(* js/shared-sync.js against one shared remote store.  A client suspends   *)
(* only at a remote call (an await); pc[u] names the await a client is     *)
(* suspended at, and one action is the remote call together with the code  *)
(* that runs after it up to the next await or the return.                  *)
(***************************************************************************)
EXTENDS Integers, Sequences, FiniteSets, TLC

Users == {"A", "B", "C"}
Creator == "A"
Null == "null"

\* UUID-shaped identifiers; every other identifier is a local string
UUIDs == {"u1", "u2"}
GroupId == "u1"
ExpenseIds == {"e1", "e2"}

\* bounds of the model
MaxCalls == 3
MaxClock == 2
MaxPasses == 2
MaxSyncCalls == 2
NumCallers == 2
MaxRounds == 2
MaxTimers == 1

VARIABLES
    grp,            \* remote row of the group GroupId
    rExpenses,      \* remote expense rows (ids) whose group_id is GroupId
    isOffline,      \* window.splitEasySync.isOffline, per client
    hasClient,      \* window.supabaseClient is set, per client
    hasUser,        \* window.currentUser is set, per client
    pc,             \* the await a client is suspended at
    snap,           \* locals of the running call (the fetched row, as changed)
    result,         \* outcome of the client's last finished call
    calls,          \* number of calls made so far, over all clients
    lastCall,       \* the client's last call: [op, id, remote, repeat]; remote:
                    \* it has issued a remote request; repeat: it repeats the
                    \* client's previous call, an online delete that returned
    afterFirst,     \* the state the first call of a repeated delete ended in
    deleteQueue,    \* localStorage spliteasy_delete_queue, per client
    localGroups,    \* localStorage spliteasy_groups, per client
    now,            \* Date.now()
    members0,       \* members of the group when it was created
    initiators,     \* users whose deleteGroupFromDatabase has marked the group pending
    confirmers,     \* users that have called confirmGroupDeletion
    restorers,      \* users whose restoreGroup has written
    pdq,            \* the processDeleteQueue pass of client Me
    isSyncing,      \* window.splitEasySync.isSyncing of client Me
    pass,           \* the running syncAllDataToDatabase calls of client Me
    sent,           \* the upserts requested so far: [table, key, id, groupId]
    syncedRows,     \* the rows the upserts have written
    lastSyncTime,   \* window.splitEasySync.lastSyncTime (0: null)
    syncCalls,      \* number of calls of syncAllDataToDatabase so far
    syncResult,     \* what the last call of syncAllDataToDatabase did
    currentGroup,   \* window.currentGroup of client Me
    windowGroups,   \* window.groups of client Me
    schemaChecked,  \* window.splitEasySync.schemaChecked
    schemaDetectionPromise, \* a detection promise is stored (FALSE: null)
    SCHEMA_MAPPING, \* the column map
    probing,        \* the column probes of the round that have not answered
    caller,         \* the callers of detectDatabaseSchema
    observed,       \* the column map a caller saw when its call resolved
    rounds,         \* number of probe rounds started so far
    syncTimeout,    \* window.splitEasySync.syncTimeout is pending (part_003)
    onlineTimers,   \* pending timeouts of the 'online' listener (part_003)
    realtimeSubscription, \* window.splitEasySync.realtimeSubscription (0: null)
    channels,       \* the channels open in the client
    channelCount,   \* number of channels created so far
    groupsCache,    \* groupsCache of shared-utils (part_005)
    groupsCacheTime, \* groupsCacheTime of shared-utils
    previousUsers,  \* the list stored under spliteasy_previous_users
    currentGroupId, \* window.currentGroupId of client Me
    userIdInput,    \* the characters in the input field userIdInput (part_001)
    isUserIdAvailable, \* isUserIdAvailable of the sign-up page
    userIdCheckTimeout, \* the timeout of the input listener is pending
    idChecks,       \* the user ids whose checkUserIdExists has not answered
    createdUser,    \* the id createUser has stored as current user (<<>>: none)
    availableFor    \* the id whose check set isUserIdAvailable (<<>>: none)

remoteVars == <<grp, rExpenses>>
clientVars == <<isOffline, hasClient, hasUser, pc, snap, result, calls, lastCall,
                afterFirst, deleteQueue, localGroups>>
ghostVars == <<members0, initiators, confirmers, restorers>>

p3Vars == <<pdq>>
syncVars == <<isSyncing, pass, sent, syncedRows, lastSyncTime, syncCalls, syncResult,
              currentGroup, windowGroups>>
detVars == <<schemaChecked, schemaDetectionPromise, SCHEMA_MAPPING, probing, caller,
             observed, rounds>>
timerVars == <<syncTimeout, onlineTimers>>
viewVars == <<currentGroupId>>
authVars == <<userIdInput, isUserIdAvailable, userIdCheckTimeout, idChecks,
              createdUser, availableFor>>
pageVars == <<realtimeSubscription, channels, channelCount, groupsCache,
              groupsCacheTime, previousUsers, viewVars, authVars>>
otherVars == <<p3Vars, syncVars, detVars, timerVars, pageVars>>

vars == <<grp, rExpenses, isOffline, hasClient, hasUser, pc, snap, result, calls,
          lastCall, afterFirst, deleteQueue, localGroups, now,
          members0, initiators, confirmers, restorers, pdq,
          isSyncing, pass, sent, syncedRows, lastSyncTime, syncCalls, syncResult,
          currentGroup, windowGroups,
          schemaChecked, schemaDetectionPromise, SCHEMA_MAPPING, probing, caller,
          observed, rounds, syncTimeout, onlineTimers,
          realtimeSubscription, channels, channelCount, groupsCache,
          groupsCacheTime, previousUsers, currentGroupId,
          userIdInput, isUserIdAvailable, userIdCheckTimeout, idChecks,
          createdUser, availableFor>>

-----------------------------------------------------------------------------
(* Rows and locals *)

NoRow == [exists |-> FALSE, members |-> {}, createdBy |-> Null, pending |-> FALSE,
          initiatedBy |-> Null, confirmedBy |-> {}, restoredBy |-> {},
          initiatedAt |-> 0]

NewRow(ms, c) == [exists |-> TRUE, members |-> ms, createdBy |-> c, pending |-> FALSE,
                  initiatedBy |-> Null, confirmedBy |-> {}, restoredBy |-> {},
                  initiatedAt |-> 0]

NoSnap == [members |-> {}, confirmedBy |-> {}, restoredBy |-> {}, createdBy |-> Null,
           pending |-> FALSE]

NoCall == [op |-> "none", id |-> Null, remote |-> FALSE, repeat |-> FALSE]

EmptyId == ""
DeleteOps == {"deleteExpense", "deleteGroup"}

\* what a delete call leaves behind: the remote rows (timestamps aside) and the
\* client's persisted queue and groups
StateOf(u) == <<[grp EXCEPT !.initiatedAt = 0], rExpenses, deleteQueue[u], localGroups[u]>>
NoState == <<>>

LocalGroup(id) == [id |-> id, supabaseId |-> Null, expenses |-> <<>>]

NoPass == [pc |-> "idle", items |-> <<>>, i |-> 0, failed |-> {}, log |-> <<>>,
           offlineSeen |-> FALSE]

\* a call of syncAllDataToDatabase that is not running
NoRequest == [table |-> Null, key |-> Null, id |-> Null, groupId |-> Null]
NoSyncPass == [pc |-> "idle", groups |-> <<>>, gi |-> 0, ei |-> 0, req |-> NoRequest]

\* window.currentGroup is not set
NoGroup == [id |-> Null, supabaseId |-> Null, expenses |-> <<>>]

Passes == 1..MaxPasses
Callers == 1..NumCallers

\* SCHEMA_MAPPING as the module is loaded
SchemaDefault ==
    [users |-> [id |-> "id", name |-> "name", createdAt |-> "created_at",
                updatedAt |-> "updated_at"],
     groups |-> [id |-> "id", name |-> "name", createdBy |-> "created_by",
                 updatedBy |-> "updated_by", members |-> "members",
                 participants |-> "participants",
                 pendingDeletion |-> "pending_deletion",
                 deletionInitiatedBy |-> "deletion_initiated_by",
                 deletionConfirmedBy |-> "deletion_confirmed_by",
                 deletionRestoredBy |-> "deletion_restored_by",
                 deletionInitiatedAt |-> "deletion_initiated_at",
                 createdAt |-> "created_at", updatedAt |-> "updated_at"],
     expenses |-> [id |-> "id", groupId |-> "group_id", description |-> "description",
                   amount |-> "amount", paidBy |-> "paid_by",
                   splitBetween |-> "split_between", createdBy |-> "created_by",
                   createdAt |-> "created_at", updatedAt |-> "updated_at",
                   perPersonAmount |-> "per_person_amount"]]

NoMap == <<>>

\* no call of syncAllDataToDatabase has been made
SyncIdle ==
    /\ isSyncing = FALSE
    /\ pass = [s \in Passes |-> NoSyncPass]
    /\ sent = {}
    /\ syncedRows = {}
    /\ lastSyncTime = 0
    /\ syncCalls = 0
    /\ syncResult = "none"
    /\ currentGroup = NoGroup
    /\ windowGroups = <<>>

\* no timeout of saveToLocalStorage or of the 'online' listener is pending
NoTimers ==
    /\ syncTimeout = FALSE
    /\ onlineTimers = 0

\* groupsCache is not set
NoCache == [set |-> FALSE, data |-> <<>>]

\* the sign-up form has been opened: no id typed, nothing checked
SignUpOpened ==
    /\ userIdInput = <<>>
    /\ isUserIdAvailable = FALSE
    /\ userIdCheckTimeout = FALSE
    /\ idChecks = {}
    /\ createdUser = <<>>
    /\ availableFor = <<>>

\* the page has been loaded: no subscription, no cached groups, and no
\* previous user stored
PageLoaded ==
    /\ realtimeSubscription = 0
    /\ channels = {}
    /\ channelCount = 0
    /\ groupsCache = NoCache
    /\ groupsCacheTime = 0
    /\ previousUsers = <<>>
    /\ currentGroupId = Null
    /\ SignUpOpened

\* the schema was detected when the client started
SchemaDetected ==
    /\ schemaChecked = TRUE
    /\ schemaDetectionPromise = FALSE
    /\ SCHEMA_MAPPING = SchemaDefault
    /\ probing = {}
    /\ caller = [c \in Callers |-> "idle"]
    /\ observed = [c \in Callers |-> NoMap]
    /\ rounds = 1

-----------------------------------------------------------------------------
(* Helpers shared by the calls *)

\* a call returns normally / throws
Return(u, r) ==
    /\ pc' = [pc EXCEPT ![u] = "idle"]
    /\ result' = [result EXCEPT ![u] = r]
    /\ snap' = [snap EXCEPT ![u] = NoSnap]

Suspend(u, at, s) ==
    /\ pc' = [pc EXCEPT ![u] = at]
    /\ snap' = [snap EXCEPT ![u] = s]
    /\ UNCHANGED result

BeginCall(u, o, id) ==
    /\ pc[u] = "idle"
    /\ calls < MaxCalls
    /\ calls' = calls + 1
    /\ LET repeat == /\ o \in DeleteOps /\ ~isOffline[u]
                      /\ lastCall[u].op = o /\ lastCall[u].id = id
                      /\ lastCall[u].remote /\ result[u] = "ok"
       IN  /\ lastCall' = [lastCall EXCEPT ![u] = [op |-> o, id |-> id,
                                                     remote |-> FALSE, repeat |-> repeat]]
           /\ afterFirst' = [afterFirst EXCEPT ![u] = IF repeat THEN StateOf(u) ELSE NoState]

Request(u) == lastCall' = [lastCall EXCEPT ![u].remote = TRUE]

\* deleteQueue.unshift(...) in place of deleteQueue.push(...)
QueuePush_unshift(q, t, id) == <<[type |-> t, id |-> id, timestamp |-> now]>> \o q

\* deleteQueue.push({type, id, timestamp: Date.now()})
QueuePush(q, t, id) == Append(q, [type |-> t, id |-> id, timestamp |-> now])

\* cleanupDeleteQueue(type, id)
cleanupDeleteQueue(q, t, id) ==
    LET keep(item) == ~(item.type = t /\ item.id = id) IN SelectSeq(q, keep)

\* members.some(...) in place of members.every(...)
AllMembersConfirmed_some(members, confirmedBy) == \E m \in members : m \in confirmedBy

\* members.every(memberId => confirmedBy.includes(memberId))
AllMembersConfirmed(members, confirmedBy) == \A m \in members : m \in confirmedBy

\* members.filter(m => m !== window.currentUser.id)
UpdatedMembers_noCreator(members, u, creatorId) == {m \in members : m # u}

\* members.filter(m => m !== window.currentUser.id || m === creatorId)
UpdatedMembers(members, u, creatorId) ==
    {m \in members : m # u \/ m = creatorId}

\* updatedMembers.length === 0 || (length === 1 && updatedMembers[0] === creatorId)
OnlyCreatorLeft(updatedMembers, creatorId) ==
    updatedMembers = {} \/ updatedMembers = {creatorId}

\* the immediate delete is never taken
OnlyCreatorIsMember_never(members, creatorId) == FALSE

\* members.length === 1 && members[0] === creatorId
OnlyCreatorIsMember(members, creatorId) == members = {creatorId}

\* the update written by deleteGroupFromDatabase when it marks the group
MarkPending(row, u) ==
    [row EXCEPT !.pending = TRUE, !.initiatedBy = u, !.confirmedBy = {u},
                !.restoredBy = {}, !.initiatedAt = now]

\* the update written by restoreGroup
RestoreUpdate(row, restoredBy) ==
    [row EXCEPT !.pending = FALSE, !.initiatedBy = Null, !.confirmedBy = {},
                !.restoredBy = restoredBy, !.initiatedAt = 0]

\* an update ... .eq(id, groupId) changes the row only when it exists
UpdateRow(new) == grp' = IF grp.exists THEN new ELSE grp

-----------------------------------------------------------------------------
(* deleteGroupFromDatabase(groupId, forceDelete) *)

\* entry of deleteGroupFromDatabase(groupId, true): the offline and client
\* checks run again, then the expenses delete is issued
ForceDeleteEntry(u) ==
    IF isOffline[u]
    THEN /\ deleteQueue' = [deleteQueue EXCEPT ![u] = QueuePush(@, "group", GroupId)]
         /\ Return(u, "ok")
    ELSE IF ~hasClient[u]
    THEN /\ Return(u, "no_client")
         /\ UNCHANGED deleteQueue
    ELSE /\ Suspend(u, "fd_expenses", snap[u])
         /\ UNCHANGED deleteQueue

\* a user calls deleteGroupFromDatabase(groupId): up to the fetch of the group
deleteGroupFromDatabase(u, groupId) ==
    /\ BeginCall(u, "deleteGroup", groupId)
    /\ IF groupId = EmptyId
       THEN /\ Return(u, "no_id")
            /\ UNCHANGED deleteQueue
       ELSE IF isOffline[u]
       THEN /\ deleteQueue' = [deleteQueue EXCEPT ![u] = QueuePush(@, "group", groupId)]
            /\ Return(u, "ok")
       ELSE IF ~hasClient[u]
       THEN /\ Return(u, "no_client")
            /\ UNCHANGED deleteQueue
       ELSE /\ Suspend(u, "del_fetch", NoSnap)
            /\ UNCHANGED deleteQueue
    /\ UNCHANGED <<remoteVars, isOffline, hasClient, hasUser, localGroups, now, otherVars,
                   ghostVars>>

\* the fetch of the group answers
DeleteGroupFetched(u) ==
    /\ pc[u] = "del_fetch"
    /\ Request(u)
    /\ \E err \in BOOLEAN :
         IF err \/ ~grp.exists
         THEN /\ Return(u, IF err THEN "request_error" ELSE "not_found")
              /\ UNCHANGED deleteQueue
         ELSE IF OnlyCreatorIsMember(grp.members, grp.createdBy)
         THEN ForceDeleteEntry(u)
         ELSE IF ~hasUser[u]
         THEN /\ Return(u, "no_user")
              /\ UNCHANGED deleteQueue
         ELSE /\ Suspend(u, "del_mark", NoSnap)
              /\ UNCHANGED deleteQueue
    /\ UNCHANGED <<remoteVars, isOffline, hasClient, hasUser, calls, afterFirst, localGroups,
                   now, otherVars, ghostVars>>

\* the update that marks the group pending answers
DeleteGroupMarked(u) ==
    /\ pc[u] = "del_mark"
    /\ Request(u)
    /\ \E err \in BOOLEAN :
         IF err
         THEN /\ Return(u, "request_error")
              /\ UNCHANGED <<grp, initiators>>
         ELSE /\ UpdateRow(MarkPending(grp, u))
              /\ initiators' = IF grp.exists THEN initiators \cup {u} ELSE initiators
              /\ Return(u, "ok")
    /\ UNCHANGED <<rExpenses, isOffline, hasClient, hasUser, calls, afterFirst, deleteQueue,
                   localGroups, now, otherVars, members0, confirmers, restorers>>

\* the locals s and the local expenseError of the force delete
WithExpenseError(s, err) ==
    [f \in DOMAIN s \cup {"expenseError"} |-> IF f = "expenseError" THEN err ELSE s[f]]

\* force delete: the delete of the group's expenses answers; an error is only
\* logged
ForceDeleteExpenses(u) ==
    /\ pc[u] = "fd_expenses"
    /\ Request(u)
    /\ \E err \in BOOLEAN :
         /\ rExpenses' = IF err THEN rExpenses ELSE {}
         /\ Suspend(u, "fd_group", WithExpenseError(snap[u], err))
    /\ UNCHANGED <<grp, isOffline, hasClient, hasUser, calls, afterFirst, deleteQueue,
                   localGroups, now, otherVars, ghostVars>>

\* force delete: the delete of the group row answers
ForceDeleteGroup(u) ==
    /\ pc[u] = "fd_group"
    /\ Request(u)
    /\ \E err \in BOOLEAN :
         IF err
         THEN /\ Return(u, "request_error")
              /\ UNCHANGED <<grp, deleteQueue>>
         ELSE /\ grp' = NoRow
              /\ deleteQueue' = [deleteQueue EXCEPT
                                   ![u] = cleanupDeleteQueue(@, "group", GroupId)]
              /\ Return(u, "ok")
    /\ UNCHANGED <<rExpenses, isOffline, hasClient, hasUser, calls, afterFirst,
                   localGroups, now, otherVars, ghostVars>>

-----------------------------------------------------------------------------
(* deleteExpenseFromDatabase(expenseId) *)

deleteExpenseFromDatabase(u, expenseId) ==
    /\ BeginCall(u, "deleteExpense", expenseId)
    /\ IF expenseId = EmptyId
       THEN /\ Return(u, "no_id")
            /\ UNCHANGED deleteQueue
       ELSE IF isOffline[u]
       THEN /\ deleteQueue' = [deleteQueue EXCEPT ![u] = QueuePush(@, "expense", expenseId)]
            /\ Return(u, "ok")
       ELSE IF ~hasClient[u]
       THEN /\ Return(u, "no_client")
            /\ UNCHANGED deleteQueue
       ELSE /\ Suspend(u, "dx_delete", NoSnap)
            /\ UNCHANGED deleteQueue
    /\ UNCHANGED <<remoteVars, isOffline, hasClient, hasUser, localGroups, now, otherVars,
                   ghostVars>>

\* the delete of the expense row answers with the deleted rows
DeleteExpenseDeleted(u) ==
    /\ pc[u] = "dx_delete"
    /\ Request(u)
    /\ LET expenseId == lastCall[u].id IN
       \E err \in BOOLEAN :
         IF err
         THEN /\ Return(u, "request_error")
              /\ UNCHANGED <<rExpenses, deleteQueue>>
         ELSE IF expenseId \notin rExpenses
         THEN /\ Return(u, "ok")
              /\ UNCHANGED <<rExpenses, deleteQueue>>
         ELSE /\ rExpenses' = rExpenses \ {expenseId}
              /\ deleteQueue' = [deleteQueue EXCEPT
                                   ![u] = cleanupDeleteQueue(@, "expense", expenseId)]
              /\ Return(u, "ok")
    /\ UNCHANGED <<grp, isOffline, hasClient, hasUser, calls, afterFirst, localGroups,
                   now, otherVars, ghostVars>>

-----------------------------------------------------------------------------
(* The connectivity signal and the clock *)

\* window 'offline' event
Offline(u) ==
    /\ ~isOffline[u]
    /\ isOffline' = [isOffline EXCEPT ![u] = TRUE]
    /\ UNCHANGED <<remoteVars, hasClient, hasUser, pc, snap, result, calls, lastCall,
                   afterFirst, deleteQueue, localGroups, now, otherVars, ghostVars>>

\* window 'online' event
Online(u) ==
    /\ isOffline[u]
    /\ isOffline' = [isOffline EXCEPT ![u] = FALSE]
    /\ UNCHANGED <<remoteVars, hasClient, hasUser, pc, snap, result, calls, lastCall,
                   afterFirst, deleteQueue, localGroups, now, otherVars, ghostVars>>

Tick ==
    /\ now < MaxClock
    /\ now' = now + 1
    /\ UNCHANGED <<remoteVars, clientVars, ghostVars, otherVars>>

-----------------------------------------------------------------------------
(* confirmGroupDeletion(groupId) *)

confirmGroupDeletion(u) ==
    /\ BeginCall(u, "confirm", GroupId)
    /\ confirmers' = confirmers \cup {u}
    /\ IF ~hasClient[u] \/ ~hasUser[u]
       THEN Return(u, "no_client")
       ELSE Suspend(u, "cf_fetch", NoSnap)
    /\ UNCHANGED <<remoteVars, isOffline, hasClient, hasUser, deleteQueue,
                   localGroups, now, otherVars, members0, initiators, restorers>>

\* the fetch answers: the user is added to confirmedBy and the check is made
ConfirmFetched(u) ==
    /\ pc[u] = "cf_fetch"
    /\ Request(u)
    /\ \E err \in BOOLEAN :
         IF err \/ ~grp.exists
         THEN /\ Return(u, IF err THEN "request_error" ELSE "not_found")
              /\ UNCHANGED deleteQueue
         ELSE LET confirmedBy == grp.confirmedBy \cup {u}
                  members == grp.members
              IN  IF AllMembersConfirmed(members, confirmedBy)
                  THEN ForceDeleteEntry(u)
                  ELSE /\ Suspend(u, "cf_updConfirmed",
                                  [members |-> members, confirmedBy |-> confirmedBy,
                                   restoredBy |-> grp.restoredBy,
                                   createdBy |-> grp.createdBy, pending |-> grp.pending])
                       /\ UNCHANGED deleteQueue
    /\ UNCHANGED <<remoteVars, isOffline, hasClient, hasUser, calls, afterFirst, localGroups,
                   now, otherVars, ghostVars>>

\* the update of deletion_confirmed_by answers
ConfirmUpdateConfirmed(u) ==
    /\ pc[u] = "cf_updConfirmed"
    /\ Request(u)
    /\ \E err \in BOOLEAN :
         IF err
         THEN /\ Return(u, "request_error")
              /\ UNCHANGED <<grp, deleteQueue>>
         ELSE /\ UpdateRow([grp EXCEPT !.confirmedBy = snap[u].confirmedBy])
              /\ LET updatedMembers ==
                         UpdatedMembers(snap[u].members, u, snap[u].createdBy)
                 IN  IF OnlyCreatorLeft(updatedMembers, snap[u].createdBy)
                     THEN ForceDeleteEntry(u)
                     ELSE /\ Suspend(u, "cf_updMembers",
                                     [snap[u] EXCEPT !.members = updatedMembers])
                          /\ UNCHANGED deleteQueue
    /\ UNCHANGED <<rExpenses, isOffline, hasClient, hasUser, calls, afterFirst, localGroups,
                   now, otherVars, ghostVars>>

\* the update of members answers; the group leaves the user's local cache
ConfirmUpdateMembers(u) ==
    /\ pc[u] = "cf_updMembers"
    /\ Request(u)
    /\ \E err \in BOOLEAN :
         IF err
         THEN /\ Return(u, "request_error")
              /\ UNCHANGED <<grp, localGroups>>
         ELSE /\ UpdateRow([grp EXCEPT !.members = snap[u].members])
              /\ LET keep(g) == g.id # GroupId /\ g.supabaseId # GroupId
                 IN  localGroups' = [localGroups EXCEPT ![u] = SelectSeq(@, keep)]
              /\ Return(u, "ok")
    /\ UNCHANGED <<rExpenses, isOffline, hasClient, hasUser, calls, afterFirst, deleteQueue,
                   now, otherVars, ghostVars>>

-----------------------------------------------------------------------------
(* restoreGroup(groupId) *)

restoreGroup(u) ==
    /\ BeginCall(u, "restore", GroupId)
    /\ IF ~hasClient[u] \/ ~hasUser[u]
       THEN Return(u, "no_client")
       ELSE Suspend(u, "rs_fetch", NoSnap)
    /\ UNCHANGED <<remoteVars, isOffline, hasClient, hasUser, deleteQueue,
                   localGroups, now, otherVars, ghostVars>>

RestoreFetched(u) ==
    /\ pc[u] = "rs_fetch"
    /\ Request(u)
    /\ \E err \in BOOLEAN :
         IF err \/ ~grp.exists
         THEN Return(u, IF err THEN "request_error" ELSE "not_found")
         ELSE Suspend(u, "rs_update",
                      [members |-> grp.members, confirmedBy |-> grp.confirmedBy,
                       restoredBy |-> grp.restoredBy \cup {u},
                       createdBy |-> grp.createdBy, pending |-> grp.pending])
    /\ UNCHANGED <<remoteVars, isOffline, hasClient, hasUser, calls, afterFirst, deleteQueue,
                   localGroups, now, otherVars, ghostVars>>

RestoreUpdated(u) ==
    /\ pc[u] = "rs_update"
    /\ Request(u)
    /\ \E err \in BOOLEAN :
         IF err
         THEN /\ Return(u, "request_error")
              /\ UNCHANGED <<grp, restorers>>
         ELSE /\ UpdateRow(RestoreUpdate(grp, snap[u].restoredBy))
              /\ restorers' = restorers \cup {u}
              /\ Return(u, "ok")
    /\ UNCHANGED <<rExpenses, isOffline, hasClient, hasUser, calls, afterFirst, deleteQueue,
                   localGroups, now, otherVars, members0, initiators, confirmers>>

-----------------------------------------------------------------------------
(* The collaborative deletion protocol: the members of one group, each on  *)
(* its own client, online, with the schema already detected.               *)

InitDel ==
    /\ members0 \in {S \in SUBSET Users : Creator \in S}
    /\ grp = NewRow(members0, Creator)
    /\ rExpenses = {"e1"}
    /\ isOffline = [u \in Users |-> FALSE]
    /\ hasClient = [u \in Users |-> TRUE]
    /\ hasUser = [u \in Users |-> TRUE]
    /\ pc = [u \in Users |-> "idle"]
    /\ snap = [u \in Users |-> NoSnap]
    /\ result = [u \in Users |-> "none"]
    /\ calls = 0
    /\ lastCall = [u \in Users |-> NoCall]
    /\ afterFirst = [u \in Users |-> NoState]
    /\ deleteQueue = [u \in Users |-> <<>>]
    /\ localGroups = [u \in Users |->
                        IF u \in members0 THEN <<LocalGroup(GroupId)>> ELSE <<>>]
    /\ now = 1
    /\ initiators = {}
    /\ confirmers = {}
    /\ restorers = {}
    /\ pdq = NoPass
    /\ NoTimers
    /\ PageLoaded
    /\ SyncIdle
    /\ SchemaDetected

NextDel ==
    \E u \in members0 :
        \/ deleteGroupFromDatabase(u, GroupId)
        \/ DeleteGroupFetched(u)
        \/ DeleteGroupMarked(u)
        \/ ForceDeleteExpenses(u)
        \/ ForceDeleteGroup(u)
        \/ confirmGroupDeletion(u)
        \/ ConfirmFetched(u)
        \/ ConfirmUpdateConfirmed(u)
        \/ ConfirmUpdateMembers(u)
        \/ restoreGroup(u)
        \/ RestoreFetched(u)
        \/ RestoreUpdated(u)

SpecDel == InitDel /\ [][NextDel]_vars

-----------------------------------------------------------------------------
(* One client deleting expenses and the group while its connectivity comes *)
(* and goes.                                                               *)

Me == "A"

InitQ ==
    /\ members0 \in {{Creator}, {Creator, "B"}}
    /\ grp \in {NewRow(members0, Creator), NoRow}
    /\ rExpenses \in SUBSET ExpenseIds
    /\ isOffline \in [Users -> BOOLEAN]
    /\ \A u \in Users \ {Me} : ~isOffline[u]
    /\ hasClient = [u \in Users |-> TRUE]
    /\ hasUser = [u \in Users |-> TRUE]
    /\ pc = [u \in Users |-> "idle"]
    /\ snap = [u \in Users |-> NoSnap]
    /\ result = [u \in Users |-> "none"]
    /\ calls = 0
    /\ lastCall = [u \in Users |-> NoCall]
    /\ afterFirst = [u \in Users |-> NoState]
    /\ deleteQueue = [u \in Users |-> <<>>]
    /\ localGroups = [u \in Users |-> IF u = Me THEN <<LocalGroup(GroupId)>> ELSE <<>>]
    /\ now = 1
    /\ initiators = {}
    /\ confirmers = {}
    /\ restorers = {}
    /\ pdq = NoPass
    /\ NoTimers
    /\ PageLoaded
    /\ SyncIdle
    /\ SchemaDetected

NextQ ==
    \/ \E id \in ExpenseIds \cup {EmptyId} : deleteExpenseFromDatabase(Me, id)
    \/ DeleteExpenseDeleted(Me)
    \/ \E id \in {GroupId, EmptyId} : deleteGroupFromDatabase(Me, id)
    \/ DeleteGroupFetched(Me)
    \/ DeleteGroupMarked(Me)
    \/ ForceDeleteExpenses(Me)
    \/ ForceDeleteGroup(Me)
    \/ Offline(Me)
    \/ Online(Me)
    \/ Tick

SpecQ == InitQ /\ [][NextQ]_vars

-----------------------------------------------------------------------------
(* The earlier sync module (unnamed/part_003): plain deletes and the pass   *)
(* over the persisted delete queue.                                         *)

\* deleteExpenseFromDatabase after its delete has answered: the queue, the
\* remote expense rows and the outcome ("request_error": it throws)
P3_ExpenseDeleted(q, rows, expenseId, err, off) ==
    IF err
    THEN [queue |-> q, rows |-> rows,
          outcome |-> IF off THEN "ok" ELSE "request_error"]
    ELSE IF expenseId \notin rows
    THEN [queue |-> q, rows |-> rows, outcome |-> "ok"]
    ELSE [queue |-> cleanupDeleteQueue(q, "expense", expenseId),
          rows |-> rows \ {expenseId}, outcome |-> "ok"]

\* deleteGroupFromDatabase after the delete of the group row has answered
P3_GroupDeleted(q, row, groupId, err) ==
    IF err
    THEN [queue |-> q, row |-> row, outcome |-> "request_error"]
    ELSE [queue |-> cleanupDeleteQueue(q, "group", groupId),
          row |-> IF groupId = GroupId THEN NoRow ELSE row, outcome |-> "ok"]

P3_deleteExpenseFromDatabase(u, expenseId) ==
    /\ BeginCall(u, "deleteExpense", expenseId)
    /\ IF expenseId = EmptyId
       THEN /\ Return(u, "no_id")
            /\ UNCHANGED deleteQueue
       ELSE IF isOffline[u]
       THEN /\ deleteQueue' = [deleteQueue EXCEPT ![u] = QueuePush(@, "expense", expenseId)]
            /\ Return(u, "ok")
       ELSE IF ~hasClient[u]
       THEN /\ Return(u, "no_client")
            /\ UNCHANGED deleteQueue
       ELSE /\ Suspend(u, "p3x_delete", NoSnap)
            /\ UNCHANGED deleteQueue
    /\ UNCHANGED <<remoteVars, isOffline, hasClient, hasUser, localGroups, now, otherVars,
                   ghostVars>>

P3_DeleteExpenseDeleted(u) ==
    /\ pc[u] = "p3x_delete"
    /\ Request(u)
    /\ \E err \in BOOLEAN :
         LET r == P3_ExpenseDeleted(deleteQueue[u], rExpenses, lastCall[u].id, err,
                                    isOffline[u])
         IN  /\ rExpenses' = r.rows
             /\ deleteQueue' = [deleteQueue EXCEPT ![u] = r.queue]
             /\ Return(u, r.outcome)
    /\ UNCHANGED <<grp, isOffline, hasClient, hasUser, calls, afterFirst, localGroups,
                   now, otherVars, ghostVars>>

P3_deleteGroupFromDatabase(u, groupId) ==
    /\ BeginCall(u, "deleteGroup", groupId)
    /\ IF groupId = EmptyId
       THEN /\ Return(u, "no_id")
            /\ UNCHANGED deleteQueue
       ELSE IF isOffline[u]
       THEN /\ deleteQueue' = [deleteQueue EXCEPT ![u] = QueuePush(@, "group", groupId)]
            /\ Return(u, "ok")
       ELSE IF ~hasClient[u]
       THEN /\ Return(u, "no_client")
            /\ UNCHANGED deleteQueue
       ELSE /\ Suspend(u, "p3g_expenses", NoSnap)
            /\ UNCHANGED deleteQueue
    /\ UNCHANGED <<remoteVars, isOffline, hasClient, hasUser, localGroups, now, otherVars,
                   ghostVars>>

\* the delete of the group's expenses answers; an error is only logged
P3_DeleteGroupExpenses(u) ==
    /\ pc[u] = "p3g_expenses"
    /\ Request(u)
    /\ \E err \in BOOLEAN :
         rExpenses' = IF err \/ lastCall[u].id # GroupId THEN rExpenses ELSE {}
    /\ Suspend(u, "p3g_group", snap[u])
    /\ UNCHANGED <<grp, isOffline, hasClient, hasUser, calls, afterFirst, deleteQueue,
                   localGroups, now, otherVars, ghostVars>>

P3_DeleteGroupDeleted(u) ==
    /\ pc[u] = "p3g_group"
    /\ Request(u)
    /\ \E err \in BOOLEAN :
         LET r == P3_GroupDeleted(deleteQueue[u], grp, lastCall[u].id, err)
         IN  /\ grp' = r.row
             /\ deleteQueue' = [deleteQueue EXCEPT ![u] = r.queue]
             /\ Return(u, r.outcome)
    /\ UNCHANGED <<rExpenses, isOffline, hasClient, hasUser, calls, afterFirst,
                   localGroups, now, otherVars, ghostVars>>

\* localStorage.removeItem('spliteasy_delete_queue')
P3_ClearQueue(q) == <<>>

\* the for loop of processDeleteQueue from entry p.i on, as far as it runs
\* without waiting: an entry met while offline is queued again by the delete
\* function, an entry met without a client throws and is skipped, any other
\* entry issues its first remote request; after the last entry the queue is
\* cleared.
RECURSIVE P3_Loop(_, _, _, _)
P3_Loop(p, q, off, client) ==
    IF p.i > Len(p.items)
    THEN [pdq |-> [p EXCEPT !.pc = "idle"], queue |-> P3_ClearQueue(q)]
    ELSE LET item == p.items[p.i] IN
         IF off
         THEN P3_Loop([p EXCEPT !.i = @ + 1, !.offlineSeen = TRUE],
                      QueuePush(q, item.type, item.id), off, client)
         ELSE IF ~client
         THEN P3_Loop([p EXCEPT !.i = @ + 1], q, off, client)
         ELSE IF item.type = "expense"
         THEN [pdq |-> [p EXCEPT !.pc = "expense", !.log = Append(@, p.i)], queue |-> q]
         ELSE [pdq |-> [p EXCEPT !.pc = "grp_expenses"], queue |-> q]

\* processDeleteQueue() is called
P3_processDeleteQueue(u) ==
    /\ pdq.pc = "idle"
    /\ calls < MaxCalls
    /\ calls' = calls + 1
    /\ IF Len(deleteQueue[u]) = 0
       THEN /\ pdq' = NoPass
            /\ UNCHANGED deleteQueue
       ELSE LET r == P3_Loop([NoPass EXCEPT !.items = deleteQueue[u], !.i = 1],
                             deleteQueue[u], isOffline[u], hasClient[u])
            IN  /\ pdq' = r.pdq
                /\ deleteQueue' = [deleteQueue EXCEPT ![u] = r.queue]
    /\ UNCHANGED <<remoteVars, isOffline, hasClient, hasUser, pc, snap, result, lastCall,
                   afterFirst, localGroups, now, ghostVars, syncVars, detVars, pageVars, timerVars>>

\* the delete of a queued expense answers; the loop goes on
P3_PassExpenseDeleted(u) ==
    /\ pdq.pc = "expense"
    /\ \E err \in BOOLEAN :
         LET item == pdq.items[pdq.i]
             d == P3_ExpenseDeleted(deleteQueue[u], rExpenses, item.id, err, isOffline[u])
             r == P3_Loop([pdq EXCEPT !.i = @ + 1,
                                      !.failed = IF err THEN @ \cup {pdq.i} ELSE @],
                          d.queue, isOffline[u], hasClient[u])
         IN  /\ rExpenses' = d.rows
             /\ pdq' = r.pdq
             /\ deleteQueue' = [deleteQueue EXCEPT ![u] = r.queue]
    /\ UNCHANGED <<grp, isOffline, hasClient, hasUser, pc, snap, result, calls, lastCall,
                   afterFirst, localGroups, now, ghostVars, syncVars, detVars, pageVars, timerVars>>

\* the delete of a queued group's expenses answers; the delete of the group
\* row is issued
P3_PassGroupExpenses(u) ==
    /\ pdq.pc = "grp_expenses"
    /\ \E err \in BOOLEAN :
         rExpenses' = IF err \/ pdq.items[pdq.i].id # GroupId THEN rExpenses ELSE {}
    /\ pdq' = [pdq EXCEPT !.pc = "grp_group", !.log = Append(@, pdq.i)]
    /\ UNCHANGED <<grp, clientVars, now, ghostVars, syncVars, detVars, pageVars, timerVars>>

\* the delete of a queued group answers; the loop goes on
P3_PassGroupDeleted(u) ==
    /\ pdq.pc = "grp_group"
    /\ \E err \in BOOLEAN :
         LET item == pdq.items[pdq.i]
             d == P3_GroupDeleted(deleteQueue[u], grp, item.id, err)
             r == P3_Loop([pdq EXCEPT !.i = @ + 1,
                                      !.failed = IF err THEN @ \cup {pdq.i} ELSE @],
                          d.queue, isOffline[u], hasClient[u])
         IN  /\ grp' = d.row
             /\ pdq' = r.pdq
             /\ deleteQueue' = [deleteQueue EXCEPT ![u] = r.queue]
    /\ UNCHANGED <<rExpenses, isOffline, hasClient, hasUser, pc, snap, result, calls,
                   lastCall, afterFirst, localGroups, now, ghostVars, syncVars, detVars, pageVars, timerVars>>

InitP3 ==
    /\ members0 = {Creator}
    /\ grp \in {NewRow(members0, Creator), NoRow}
    /\ rExpenses \in SUBSET ExpenseIds
    /\ isOffline \in [Users -> BOOLEAN]
    /\ \A u \in Users \ {Me} : ~isOffline[u]
    /\ hasClient = [u \in Users |-> TRUE]
    /\ hasUser = [u \in Users |-> TRUE]
    /\ pc = [u \in Users |-> "idle"]
    /\ snap = [u \in Users |-> NoSnap]
    /\ result = [u \in Users |-> "none"]
    /\ calls = 0
    /\ lastCall = [u \in Users |-> NoCall]
    /\ afterFirst = [u \in Users |-> NoState]
    /\ deleteQueue = [u \in Users |-> <<>>]
    /\ localGroups = [u \in Users |-> IF u = Me THEN <<LocalGroup(GroupId)>> ELSE <<>>]
    /\ now = 1
    /\ initiators = {}
    /\ confirmers = {}
    /\ restorers = {}
    /\ pdq = NoPass
    /\ NoTimers
    /\ PageLoaded
    /\ SyncIdle
    /\ SchemaDetected

NextP3 ==
    \/ \E id \in ExpenseIds \cup {EmptyId} : P3_deleteExpenseFromDatabase(Me, id)
    \/ P3_DeleteExpenseDeleted(Me)
    \/ \E id \in {GroupId, EmptyId} : P3_deleteGroupFromDatabase(Me, id)
    \/ P3_DeleteGroupExpenses(Me)
    \/ P3_DeleteGroupDeleted(Me)
    \/ P3_processDeleteQueue(Me)
    \/ P3_PassExpenseDeleted(Me)
    \/ P3_PassGroupExpenses(Me)
    \/ P3_PassGroupDeleted(Me)
    \/ Offline(Me)
    \/ Online(Me)
    \/ Tick

SpecP3 == InitP3 /\ [][NextP3]_vars

-----------------------------------------------------------------------------
(* detectDatabaseSchema() *)

\* the column probes of one round
testQueries ==
    <<[table |-> "users", column |-> "created_at", mapping |-> "createdAt"],
      [table |-> "users", column |-> "updated_at", mapping |-> "updatedAt"],
      [table |-> "groups", column |-> "created_by", mapping |-> "createdBy"],
      [table |-> "groups", column |-> "created_at", mapping |-> "createdAt"],
      [table |-> "groups", column |-> "members", mapping |-> "members"],
      [table |-> "groups", column |-> "updated_by", mapping |-> "updatedBy"],
      [table |-> "groups", column |-> "updated_at", mapping |-> "updatedAt"],
      [table |-> "expenses", column |-> "group_id", mapping |-> "groupId"],
      [table |-> "expenses", column |-> "paid_by", mapping |-> "paidBy"]>>

\* the stored promise is never looked at
DetectInFlight_never(promise) == FALSE

\* if (schemaDetectionPromise)
DetectInFlight(promise) == promise

\* caller c calls detectDatabaseSchema(): it gets the stored promise, or a
\* resolved one, or starts the round of probes and stores its promise
detectDatabaseSchema(c) ==
    /\ caller[c] # "awaiting"
    /\ IF DetectInFlight(schemaDetectionPromise)
       THEN /\ caller' = [caller EXCEPT ![c] = "awaiting"]
            /\ UNCHANGED <<schemaDetectionPromise, probing, observed, rounds>>
       ELSE IF schemaChecked \/ ~hasClient[Me]
       THEN /\ caller' = [caller EXCEPT ![c] = "returned"]
            /\ observed' = [observed EXCEPT ![c] = SCHEMA_MAPPING]
            /\ UNCHANGED <<schemaDetectionPromise, probing, rounds>>
       ELSE /\ rounds < MaxRounds
            /\ rounds' = rounds + 1
            /\ schemaDetectionPromise' = TRUE
            /\ probing' = 1..Len(testQueries)
            /\ caller' = [caller EXCEPT ![c] = "awaiting"]
            /\ UNCHANGED observed
    /\ UNCHANGED <<remoteVars, clientVars, now, ghostVars, p3Vars, syncVars, pageVars, timerVars,
                   schemaChecked, SCHEMA_MAPPING>>

\* probe k answers; with the last answer the round is over: schemaChecked is
\* set, the stored promise is dropped and the callers awaiting it resume
ProbeAnswered(k) ==
    /\ k \in probing
    /\ probing' = probing \ {k}
    /\ \E err \in BOOLEAN :
         LET test == testQueries[k] IN
         SCHEMA_MAPPING' = IF err THEN SCHEMA_MAPPING
                           ELSE [SCHEMA_MAPPING EXCEPT
                                   ![test.table][test.mapping] = test.column]
    /\ IF probing' = {}
       THEN /\ schemaChecked' = TRUE
            /\ schemaDetectionPromise' = FALSE
            /\ caller' = [c \in Callers |->
                            IF caller[c] = "awaiting" THEN "returned" ELSE caller[c]]
            /\ observed' = [c \in Callers |->
                              IF caller[c] = "awaiting" THEN SCHEMA_MAPPING'
                              ELSE observed[c]]
       ELSE UNCHANGED <<schemaChecked, schemaDetectionPromise, caller, observed>>
    /\ UNCHANGED <<remoteVars, clientVars, now, ghostVars, p3Vars, syncVars, pageVars, timerVars, rounds>>

InitDetect ==
    /\ members0 = {Creator}
    /\ grp = NewRow(members0, Creator)
    /\ rExpenses = {}
    /\ isOffline = [u \in Users |-> FALSE]
    /\ hasClient \in [Users -> BOOLEAN]
    /\ \A u \in Users \ {Me} : hasClient[u]
    /\ hasUser = [u \in Users |-> TRUE]
    /\ pc = [u \in Users |-> "idle"]
    /\ snap = [u \in Users |-> NoSnap]
    /\ result = [u \in Users |-> "none"]
    /\ calls = 0
    /\ lastCall = [u \in Users |-> NoCall]
    /\ afterFirst = [u \in Users |-> NoState]
    /\ deleteQueue = [u \in Users |-> <<>>]
    /\ localGroups = [u \in Users |-> <<>>]
    /\ now = 1
    /\ initiators = {}
    /\ confirmers = {}
    /\ restorers = {}
    /\ pdq = NoPass
    /\ NoTimers
    /\ PageLoaded
    /\ SyncIdle
    /\ schemaChecked = FALSE
    /\ schemaDetectionPromise = FALSE
    /\ SCHEMA_MAPPING = SchemaDefault
    /\ probing = {}
    /\ caller = [c \in Callers |-> "idle"]
    /\ observed = [c \in Callers |-> NoMap]
    /\ rounds = 0

NextDetect ==
    \/ \E c \in Callers : detectDatabaseSchema(c)
    \/ \E k \in 1..Len(testQueries) : ProbeAnswered(k)

SpecDetect == InitDetect /\ [][NextDetect]_vars

-----------------------------------------------------------------------------
(* syncAllDataToDatabase() and the entity syncs it calls.  The schema has   *)
(* been detected, so that await detectDatabaseSchema() resolves at once.    *)

Triggers == {"debounce", "reconnect", "periodic"}

\* uuidRegex.test(id)
IsUUID(id) == id \in UUIDs \cup ExpenseIds

\* the remote id syncGroupToDatabase uses for the group; fresh: generateUUID()
GroupSupabaseId(group, fresh) ==
    IF group.supabaseId # Null THEN group.supabaseId
    ELSE IF group.id # Null
    THEN IF IsUUID(group.id) THEN group.id ELSE fresh
    ELSE fresh

\* the remote id syncExpenseToDatabase uses for the expense
ExpenseSupabaseId(expense, fresh) ==
    LET id == IF expense.supabaseId # Null THEN expense.supabaseId ELSE expense.id
    IN  IF id = Null \/ ~IsUUID(id) THEN fresh ELSE id

\* window.groups.find(g => g.id === groupId || g.supabaseId === groupId)
FindGroup(gs, groupId) ==
    LET hits == {k \in 1..Len(gs) : gs[k].id = groupId \/ gs[k].supabaseId = groupId}
    IN  IF hits = {} THEN NoGroup
        ELSE gs[CHOOSE k \in hits : \A j \in hits : k <= j]

\* the group_id syncExpenseToDatabase writes for an expense of group groupId
SupabaseGroupId(groupId, cur, gs) ==
    LET fromCurrent == IF cur # NoGroup /\ cur.supabaseId # Null
                       THEN cur.supabaseId ELSE groupId
        fromId == IF IsUUID(groupId) THEN groupId ELSE fromCurrent
        found == FindGroup(gs, groupId)
    IN  IF ~IsUUID(fromId) /\ found # NoGroup /\ found.supabaseId # Null
        THEN found.supabaseId
        ELSE fromId

\* upsert(record, {onConflict: 'id'})
Upsert(rows, row) ==
    {r \in rows : ~(r.table = row.table /\ r.id = row.id)} \cup {row}

\* the first check of syncAllDataToDatabase without the isSyncing flag
CannotSync_noFlag(u) == isOffline[u] \/ ~hasClient[u] \/ ~hasUser[u]

\* isSyncing || isOffline || !supabaseClient || !currentUser
CannotSync(u) == isSyncing \/ isOffline[u] \/ ~hasClient[u] \/ ~hasUser[u]

\* the call ends and leaves the flag as it is
SyncEnd_noFinally(s) == pass' = [pass EXCEPT ![s] = NoSyncPass] /\ UNCHANGED isSyncing

\* the call s ends: finally { isSyncing = false }
SyncEnd(s) ==
    /\ pass' = [pass EXCEPT ![s] = NoSyncPass]
    /\ isSyncing' = FALSE

\* syncGroupToDatabase(groups[gi]) of call s up to its upsert request
SyncGroupStart(u, s, groups, gi) ==
    IF isOffline[u] \/ ~hasClient[u] \/ ~hasUser[u]
    THEN /\ SyncEnd(s)
         /\ UNCHANGED sent
    ELSE \E fresh \in UUIDs :
           LET id == GroupSupabaseId(groups[gi], fresh)
               group == [groups[gi] EXCEPT !.supabaseId = id]
               req == [table |-> "groups", key |-> group.id, id |-> id,
                       groupId |-> Null]
           IN  /\ sent' = sent \cup {req}
               /\ pass' = [pass EXCEPT ![s] = [pc |-> "group",
                                                groups |-> [groups EXCEPT ![gi] = group],
                                                gi |-> gi, ei |-> 0, req |-> req]]
               /\ UNCHANGED isSyncing

\* syncExpenseToDatabase(expenses[ei], group.id) of call s up to its upsert
\* request; offline or without a client or user every expense left is skipped
SyncExpenseStart(u, s, ei) ==
    LET p == pass[s]
        group == p.groups[p.gi]
    IN  IF ei > Len(group.expenses) \/ isOffline[u] \/ ~hasClient[u] \/ ~hasUser[u]
        THEN /\ pass' = [pass EXCEPT ![s].pc = "pace", ![s].ei = 0, ![s].req = NoRequest]
             /\ UNCHANGED sent
        ELSE \E fresh \in UUIDs :
               LET id == ExpenseSupabaseId(group.expenses[ei], fresh)
                   expense == [group.expenses[ei] EXCEPT !.supabaseId = id]
                   req == [table |-> "expenses", key |-> expense.id, id |-> id,
                           groupId |-> SupabaseGroupId(group.id, currentGroup,
                                                       windowGroups)]
               IN  /\ sent' = sent \cup {req}
                   /\ pass' = [pass EXCEPT ![s].pc = "expense", ![s].ei = ei,
                                           ![s].req = req,
                                           ![s].groups[p.gi].expenses[ei] = expense]

\* the body of syncAllDataToDatabase up to the upsert request of the user
SyncAll(u) ==
    /\ syncCalls < MaxSyncCalls
    /\ syncCalls' = syncCalls + 1
    /\ IF CannotSync(u)
       THEN /\ syncResult' = IF isSyncing THEN "already_syncing" ELSE "cannot_sync"
            /\ UNCHANGED <<isSyncing, pass>>
       ELSE /\ \E s \in Passes :
                 /\ pass[s].pc = "idle"
                 /\ \A r \in Passes : pass[r].pc = "idle" => s <= r
                 /\ pass' = [pass EXCEPT ![s].pc = "user",
                                         ![s].req = [table |-> "users", key |-> u,
                                                     id |-> u, groupId |-> Null]]
            /\ isSyncing' = TRUE
            /\ syncResult' = "started"
    /\ UNCHANGED <<remoteVars, clientVars, now, ghostVars, p3Vars, detVars, pageVars, timerVars, sent,
                   syncedRows, lastSyncTime, currentGroup, windowGroups>>

\* a timer or the reconnect handler calls syncAllDataToDatabase()
syncAllDataToDatabase(u, trigger) ==
    /\ schemaChecked
    /\ SyncAll(u)

\* forceSyncToDatabase(): its own checks, then syncAllDataToDatabase()
forceSyncToDatabase(u) ==
    /\ schemaChecked
    /\ IF isSyncing \/ isOffline[u] \/ ~hasClient[u] \/ ~hasUser[u]
       THEN /\ syncCalls < MaxSyncCalls
            /\ syncCalls' = syncCalls + 1
            /\ syncResult' = IF isSyncing THEN "already_syncing" ELSE "cannot_sync"
            /\ UNCHANGED <<remoteVars, clientVars, now, ghostVars, p3Vars, detVars, pageVars, timerVars,
                           isSyncing, pass, sent, syncedRows, lastSyncTime, currentGroup,
                           windowGroups>>
       ELSE SyncAll(u)

\* the upsert of the user answers (a failure is only logged); the groups are
\* loaded from the local cache and the first group is synced
SyncUserUpserted(u, s) ==
    /\ pass[s].pc = "user"
    /\ \E err \in BOOLEAN :
         syncedRows' = IF err THEN syncedRows ELSE Upsert(syncedRows, pass[s].req)
    /\ LET groups == localGroups[u]
       IN  IF Len(groups) = 0
           THEN /\ SyncEnd(s)
                /\ UNCHANGED sent
           ELSE SyncGroupStart(u, s, groups, 1)
    /\ UNCHANGED <<remoteVars, clientVars, now, ghostVars, p3Vars, detVars, pageVars, timerVars,
                   lastSyncTime, syncCalls, syncResult, currentGroup, windowGroups>>

\* the upsert of the group answers: a failure ends the call, otherwise the
\* expenses of the group are synced
SyncGroupUpserted(u, s) ==
    /\ pass[s].pc = "group"
    /\ \E err \in BOOLEAN :
         IF err
         THEN /\ SyncEnd(s)
              /\ UNCHANGED <<sent, syncedRows>>
         ELSE /\ syncedRows' = Upsert(syncedRows, pass[s].req)
              /\ SyncExpenseStart(u, s, 1)
              /\ UNCHANGED isSyncing
    /\ UNCHANGED <<remoteVars, clientVars, now, ghostVars, p3Vars, detVars, pageVars, timerVars,
                   lastSyncTime, syncCalls, syncResult, currentGroup, windowGroups>>

\* the upsert of an expense answers (a failure is only logged)
SyncExpenseUpserted(u, s) ==
    /\ pass[s].pc = "expense"
    /\ \E err \in BOOLEAN :
         syncedRows' = IF err THEN syncedRows ELSE Upsert(syncedRows, pass[s].req)
    /\ SyncExpenseStart(u, s, pass[s].ei + 1)
    /\ UNCHANGED <<remoteVars, clientVars, now, ghostVars, p3Vars, detVars, pageVars, timerVars,
                   isSyncing, lastSyncTime, syncCalls, syncResult, currentGroup,
                   windowGroups>>

\* the 200 ms pause after a group is over: the next group is synced, or the
\* call records the time and ends
SyncPaced(u, s) ==
    /\ pass[s].pc = "pace"
    /\ LET p == pass[s] IN
       IF p.gi < Len(p.groups)
       THEN /\ SyncGroupStart(u, s, p.groups, p.gi + 1)
            /\ UNCHANGED lastSyncTime
       ELSE /\ lastSyncTime' = now
            /\ SyncEnd(s)
            /\ UNCHANGED sent
    /\ UNCHANGED <<remoteVars, clientVars, now, ghostVars, p3Vars, detVars, pageVars, timerVars,
                   syncedRows, syncCalls, syncResult, currentGroup, windowGroups>>

\* a group created on this client with one expense, and a group fetched from
\* the remote store with one expense
LocalOnlyGroup ==
    [id |-> "L1", supabaseId |-> Null,
     expenses |-> <<[id |-> "x1", supabaseId |-> Null]>>]
FetchedGroup ==
    [id |-> "u1", supabaseId |-> "u1",
     expenses |-> <<[id |-> "e1", supabaseId |-> Null]>>]

InitSync ==
    /\ members0 = {Creator}
    /\ grp = NewRow(members0, Creator)
    /\ rExpenses = {"e1"}
    /\ isOffline \in [Users -> BOOLEAN]
    /\ \A u \in Users \ {Me} : ~isOffline[u]
    /\ hasClient = [u \in Users |-> TRUE]
    /\ hasUser = [u \in Users |-> TRUE]
    /\ pc = [u \in Users |-> "idle"]
    /\ snap = [u \in Users |-> NoSnap]
    /\ result = [u \in Users |-> "none"]
    /\ calls = 0
    /\ lastCall = [u \in Users |-> NoCall]
    /\ afterFirst = [u \in Users |-> NoState]
    /\ deleteQueue = [u \in Users |-> <<>>]
    /\ \E gs \in {<<>>, <<LocalOnlyGroup>>, <<FetchedGroup>>,
                  <<LocalOnlyGroup, FetchedGroup>>} :
         /\ localGroups = [u \in Users |-> IF u = Me THEN gs ELSE <<>>]
         /\ windowGroups = gs
         /\ currentGroup \in {NoGroup} \cup {gs[k] : k \in 1..Len(gs)}
    /\ now = 1
    /\ initiators = {}
    /\ confirmers = {}
    /\ restorers = {}
    /\ pdq = NoPass
    /\ NoTimers
    /\ PageLoaded
    /\ isSyncing = FALSE
    /\ pass = [s \in Passes |-> NoSyncPass]
    /\ sent = {}
    /\ syncedRows = {}
    /\ lastSyncTime = 0
    /\ syncCalls = 0
    /\ syncResult = "none"
    /\ SchemaDetected

NextSync ==
    \/ \E trigger \in Triggers : syncAllDataToDatabase(Me, trigger)
    \/ forceSyncToDatabase(Me)
    \/ \E s \in Passes :
         \/ SyncUserUpserted(Me, s)
         \/ SyncGroupUpserted(Me, s)
         \/ SyncExpenseUpserted(Me, s)
         \/ SyncPaced(Me, s)
    \/ Offline(Me)
    \/ Online(Me)
    \/ Tick

SpecSync == InitSync /\ [][NextSync]_vars

-----------------------------------------------------------------------------
(* Properties of the collaborative deletion protocol (SpecDel) *)

\* the step in which u's restoreGroup writes its update and returns
RestoreWrites(u) == pc[u] = "rs_update" /\ pc'[u] = "idle" /\ result'[u] = "ok"

\* a step of u's running confirmGroupDeletion call
ConfirmSteps(u) == lastCall[u].op = "confirm" /\ pc[u] # "idle" /\ pc'[u] # pc[u]

\* C1: a group with members {A,B,C} created by A and marked for deletion by A
\* only is not physically deleted before both B and C have called confirm;
\* and when B's restore writes while C has not confirmed, the group exists
\* with pending = false after it.
C1_DeletionUnanimity ==
    /\ []((members0 = Users /\ initiators = {Creator} /\ ~grp.exists)
            => {"B", "C"} \subseteq confirmers)
    /\ [][(members0 = Users /\ initiators = {Creator} /\ "C" \notin confirmers
            /\ RestoreWrites("B"))
            => (grp.exists /\ grp'.exists /\ ~grp'.pending)]_vars

C1_Witness ==
    /\ members0 = Users /\ initiators = {Creator}
    /\ confirmers = {"B", "C"}
    /\ ~grp.exists

\* C2: a group with more than one member on which a deletion was initiated is
\* physically deleted only after every member, the creator included, has
\* confirmed (by calling confirm, or by initiating, which confirms for the
\* initiator).
C2_EveryMemberConfirms ==
    (Cardinality(members0) > 1 /\ initiators # {} /\ ~grp.exists)
        => members0 \subseteq (confirmers \cup initiators)

\* C3: a step of confirm on a group whose pending flag is false neither deletes
\* the group nor changes its members.
C3_ConfirmOnlyFromPending ==
    [][\A u \in Users :
        (ConfirmSteps(u) /\ grp.exists /\ ~grp.pending)
            => (grp'.exists /\ grp'.members = grp.members)]_vars

\* C4: the update of a restore that fetched a pending group sets pending=false,
\* clears initiatedBy, confirmedBy and initiatedAt, sets restoredBy to the
\* value it had before the update plus the user, and leaves the group in place.
C4_RestoreEffect ==
    [][\A u \in Users :
        (RestoreWrites(u) /\ snap[u].pending /\ grp.exists)
            => /\ grp'.exists
               /\ ~grp'.pending
               /\ grp'.initiatedBy = Null
               /\ grp'.confirmedBy = {}
               /\ grp'.initiatedAt = 0
               /\ grp'.restoredBy = grp.restoredBy \cup {u}]_vars

\* the same, leaving out what the update does to restoredBy
C4_RestoreClears ==
    [][\A u \in Users :
        (RestoreWrites(u) /\ snap[u].pending /\ grp.exists)
            => /\ grp'.exists
               /\ ~grp'.pending
               /\ grp'.initiatedBy = Null
               /\ grp'.confirmedBy = {}
               /\ grp'.initiatedAt = 0
               /\ u \in grp'.restoredBy]_vars

-----------------------------------------------------------------------------
(* Properties of the delete calls (SpecQ) *)

\* the step in which u calls a delete operation while its offline flag is set
OfflineDeleteCall(u) ==
    /\ isOffline[u] /\ pc[u] = "idle" /\ calls' = calls + 1
    /\ lastCall'[u].op \in DeleteOps /\ lastCall'[u].id # EmptyId

\* C6: deleteExpense(id) and deleteGroup(id) with a non-empty id, called while
\* the offline flag is set, issue no remote request, append exactly the entry
\* {type, id, timestamp} to the end of the persisted delete queue, leave the
\* entries before it and the remote rows as they are, and return normally.
C6_OfflineDeleteQueues ==
    [][OfflineDeleteCall(Me)
        => /\ deleteQueue'[Me] =
                Append(deleteQueue[Me],
                       [type |-> IF lastCall'[Me].op = "deleteExpense"
                                 THEN "expense" ELSE "group",
                        id |-> lastCall'[Me].id, timestamp |-> now])
           /\ ~lastCall'[Me].remote
           /\ pc'[Me] = "idle" /\ result'[Me] = "ok"
           /\ UNCHANGED remoteVars]_vars

C6_Witness ==
    /\ isOffline[Me] /\ pc[Me] = "idle" /\ result[Me] = "ok"
    /\ lastCall[Me].op = "deleteGroup" /\ ~lastCall[Me].remote
    /\ Len(deleteQueue[Me]) = 2
    /\ deleteQueue[Me][1].type = "expense" /\ deleteQueue[Me][2].type = "group"

\* the step in which u's repeated online delete call ends
RepeatedDeleteEnds(u) ==
    /\ lastCall[u].repeat /\ pc[u] # "idle" /\ pc'[u] = "idle"
    /\ ~isOffline[u] /\ result'[u] # "request_error"

\* C8: an online delete of an expense or group id, called a second time right
\* after a first call that returned, returns without raising and leaves the
\* remote rows and the local state as the first call left them.
C8_DeleteTwice ==
    [][\A u \in Users :
        RepeatedDeleteEnds(u)
            => (result'[u] = "ok" /\ StateOf(u)' = afterFirst[u])]_vars

\* C8 for expenses alone
C8_DeleteExpenseTwice ==
    [][\A u \in Users :
        (RepeatedDeleteEnds(u) /\ lastCall[u].op = "deleteExpense")
            => (result'[u] = "ok" /\ StateOf(u)' = afterFirst[u])]_vars

-----------------------------------------------------------------------------
(* Properties of the pass over the delete queue (SpecP3) *)

\* the step in which a pass that met no offline entry returns
PassEnds == pdq.pc # "idle" /\ pdq'.pc = "idle" /\ ~pdq'.offlineSeen

\* the entry is in the queue
Queued(q, item) == \E k \in 1..Len(q) : q[k] = item

\* C7: a pass of processDeleteQueue that ran online has issued exactly one
\* remote delete for each entry of the queue it read, in order, and when it
\* returns every entry whose remote delete failed is still in the queue.
C7_QueueKeepsFailures ==
    [][PassEnds
        => /\ pdq'.log = [k \in 1..Len(pdq.items) |-> k]
           /\ \A k \in pdq'.failed : Queued(deleteQueue'[Me], pdq.items[k])]_vars

\* the first half of C7 alone: one remote delete for each entry, in order
C7_OneDeletePerEntry ==
    [][PassEnds => pdq'.log = [k \in 1..Len(pdq.items) |-> k]]_vars

-----------------------------------------------------------------------------
(* Properties of the schema detection (SpecDetect) *)

\* the step in which a caller calls detectDatabaseSchema after a round is over
LaterCall == schemaChecked /\ \E c \in Callers : caller'[c] # caller[c]

\* C10: with a client configured, the calls of detectDatabaseSchema start one
\* round of probes in all: a caller is waiting only while the round is in
\* flight, a call has resolved only once the round is over, a call made after
\* the round resolves at once without a probe, and all callers see one map.
C10_OneProbeRound ==
    /\ [](hasClient[Me] =>
            /\ rounds <= 1
            /\ \A c \in Callers :
                 /\ caller[c] # "idle" => rounds = 1
                 /\ caller[c] = "awaiting" => (schemaDetectionPromise /\ probing # {})
                 /\ caller[c] = "returned" => (schemaChecked /\ probing = {})
            /\ \A c, d \in Callers :
                 (caller[c] = "returned" /\ caller[d] = "returned")
                     => observed[c] = observed[d])
    /\ [][(hasClient[Me] /\ LaterCall)
            => /\ UNCHANGED <<rounds, probing>>
               /\ \A c \in Callers :
                    caller'[c] # caller[c] => caller'[c] = "returned"]_vars

C10_Witness ==
    /\ hasClient[Me] /\ rounds = 1 /\ schemaChecked
    /\ \A c \in Callers : caller[c] = "returned" /\ observed[c] = SCHEMA_MAPPING

-----------------------------------------------------------------------------
(* Properties of the sync calls (SpecSync) *)

\* C5: all the upserts requested for one local group, and all those requested
\* for one local expense, carry one remote id, over every call of syncAll and
\* after failed upserts.
C5_RemoteIdStable ==
    \A a, b \in sent : (a.table = b.table /\ a.key = b.key) => a.id = b.id

\* the same for the entities whose local id is UUID shaped
C5_UUIDKeyStable ==
    \A a, b \in sent :
        (a.table = b.table /\ a.key = b.key /\ IsUUID(a.key)) => a.id = b.id

Running == {s \in Passes : pass[s].pc # "idle"}

\* C9: at most one call of syncAllDataToDatabase is in progress; a call made
\* while isSyncing is set changes nothing (no request, no call in progress
\* added, nothing stored for later), and a call comes into progress only in
\* the step of an invocation made while isSyncing is not set.
C9_OnePassAtATime ==
    /\ [](Cardinality(Running) <= 1 /\ (isSyncing <=> Running # {}))
    /\ [][(syncCalls' = syncCalls + 1 /\ isSyncing)
            => /\ syncResult' = "already_syncing"
               /\ UNCHANGED <<remoteVars, clientVars, now, isSyncing, pass, sent,
                              syncedRows, lastSyncTime>>]_vars
    /\ [][(Running' \ Running # {}) => (syncCalls' = syncCalls + 1 /\ ~isSyncing)]_vars

C9_Witness ==
    /\ syncResult = "already_syncing" /\ isSyncing
    /\ Cardinality(Running) = 1
    /\ \E s \in Running : pass[s].pc = "group"

-----------------------------------------------------------------------------
(* Further properties of the collaborative deletion protocol (SpecDel) *)

\* C19: no step of initiate, confirm or restore takes the creator out of the
\* members of the group: when the creator is a member of the group before a
\* step and the group is still there after it, the creator is a member after it.
C19_CreatorStaysMember ==
    [][(grp.exists /\ grp'.exists /\ grp.createdBy \in grp.members)
         => grp'.createdBy \in grp'.members]_vars

\* the creator's own confirm has written the members of the group
C19_Witness ==
    /\ lastCall[Creator].op = "confirm" /\ lastCall[Creator].remote
    /\ pc[Creator] = "idle" /\ result[Creator] = "ok"
    /\ localGroups[Creator] = <<>>
    /\ grp.exists /\ Creator \in grp.members /\ Cardinality(grp.members) > 1

-----------------------------------------------------------------------------
(* Further properties of the delete calls (SpecQ) *)

\* the step in which u's online delete call ends after its remote delete
OnlineDeleteEnds(u) ==
    /\ lastCall[u].op \in DeleteOps /\ ~isOffline[u]
    /\ pc[u] \in {"dx_delete", "fd_group"} /\ pc'[u] = "idle"

\* the row the call was to delete is still in the remote store
StillThere(u) ==
    IF lastCall[u].op = "deleteExpense" THEN lastCall[u].id \in rExpenses
    ELSE grp.exists

\* C18: an online deleteExpense or deleteGroup call does not raise when its
\* remote delete has answered, and when the row is still there after the call
\* (the delete failed) the queue holds an entry for the id.
C18_FailedDeleteQueued ==
    [][\A u \in Users :
        OnlineDeleteEnds(u)
          => /\ result'[u] = "ok"
             /\ StillThere(u)' =>
                  \E k \in 1..Len(deleteQueue'[u]) :
                     deleteQueue'[u][k].id = lastCall[u].id]_vars

-----------------------------------------------------------------------------
(* Further properties of the sync calls (SpecSync) *)

\* every row of rows is a row of rows2, or was replaced there by one of its id
RowsKept(rows, rows2) ==
    \A r \in rows : \E q \in rows2 : q.table = r.table /\ q.id = r.id

-----------------------------------------------------------------------------
(* syncGroupToDatabase called on its own (js/shared-sync.js) *)

\* a failure of syncGroupToDatabase that is answered with null
SyncGroupRaise_null(reason) == "null"

\* throw new Error(reason) / throw error: the call raises, for that reason
SyncGroupRaise(reason) == reason

\* the ways a call of syncGroupToDatabase raises
Raised == {"cannot_sync", "request_error", "no_data"}

\* the answers of the upsert: a record, an error, or neither
UpsertAnswers == {"data", "error", "nodata"}

\* syncGroupToDatabase(window.groups[k]) up to its upsert request; the id it
\* resolves is stored on the group object it was given
syncGroupToDatabase(u, k) ==
    /\ k \in 1..Len(windowGroups)
    /\ schemaChecked
    /\ BeginCall(u, "syncGroup", windowGroups[k].id)
    /\ IF isOffline[u] \/ ~hasClient[u] \/ ~hasUser[u]
       THEN /\ Return(u, SyncGroupRaise("cannot_sync"))
            /\ UNCHANGED <<sent, windowGroups>>
       ELSE \E fresh \in UUIDs :
              LET id == GroupSupabaseId(windowGroups[k], fresh)
                  req == [table |-> "groups", key |-> windowGroups[k].id, id |-> id,
                          groupId |-> Null]
              IN  /\ sent' = sent \cup {req}
                  /\ windowGroups' = [windowGroups EXCEPT ![k].supabaseId = id]
                  /\ Suspend(u, "sg_upsert", [req |-> req])
    /\ UNCHANGED <<remoteVars, isOffline, hasClient, hasUser, deleteQueue, localGroups,
                   now, ghostVars, p3Vars, detVars, pageVars, timerVars, isSyncing, pass, syncedRows,
                   lastSyncTime, syncCalls, syncResult, currentGroup>>

\* the upsert answers: the record is returned, or the call raises
SyncGroupAnswered(u) ==
    /\ pc[u] = "sg_upsert"
    /\ Request(u)
    /\ \E answer \in UpsertAnswers :
         IF answer = "error"
         THEN /\ Return(u, SyncGroupRaise("request_error"))
              /\ UNCHANGED syncedRows
         ELSE IF answer = "nodata"
         THEN /\ Return(u, SyncGroupRaise("no_data"))
              /\ UNCHANGED syncedRows
         ELSE /\ Return(u, "ok")
              /\ syncedRows' = Upsert(syncedRows, snap[u].req)
    /\ UNCHANGED <<remoteVars, isOffline, hasClient, hasUser, calls, afterFirst,
                   deleteQueue, localGroups, now, ghostVars, p3Vars, detVars, pageVars, timerVars,
                   isSyncing, pass, sent, lastSyncTime, syncCalls, syncResult,
                   currentGroup, windowGroups>>

\* the user signs in: window.currentUser = userData
SignIn(u) ==
    /\ ~hasUser[u]
    /\ hasUser' = [hasUser EXCEPT ![u] = TRUE]
    /\ UNCHANGED <<remoteVars, isOffline, hasClient, pc, snap, result, calls, lastCall,
                   afterFirst, deleteQueue, localGroups, now, ghostVars, otherVars>>

InitEntity ==
    /\ members0 = {Creator}
    /\ grp = NewRow(members0, Creator)
    /\ rExpenses = {"e1"}
    /\ isOffline \in [Users -> BOOLEAN]
    /\ \A u \in Users \ {Me} : ~isOffline[u]
    /\ hasClient \in [Users -> BOOLEAN]
    /\ \A u \in Users \ {Me} : hasClient[u]
    /\ hasUser \in [Users -> BOOLEAN]
    /\ \A u \in Users \ {Me} : hasUser[u]
    /\ pc = [u \in Users |-> "idle"]
    /\ snap = [u \in Users |-> NoSnap]
    /\ result = [u \in Users |-> "none"]
    /\ calls = 0
    /\ lastCall = [u \in Users |-> NoCall]
    /\ afterFirst = [u \in Users |-> NoState]
    /\ deleteQueue = [u \in Users |-> <<>>]
    /\ \E gs \in {<<LocalOnlyGroup>>, <<FetchedGroup>>,
                  <<LocalOnlyGroup, FetchedGroup>>} :
         /\ localGroups = [u \in Users |-> IF u = Me THEN gs ELSE <<>>]
         /\ windowGroups = gs
    /\ currentGroup = NoGroup
    /\ now = 1
    /\ initiators = {}
    /\ confirmers = {}
    /\ restorers = {}
    /\ pdq = NoPass
    /\ NoTimers
    /\ PageLoaded
    /\ isSyncing = FALSE
    /\ pass = [s \in Passes |-> NoSyncPass]
    /\ sent = {}
    /\ syncedRows = {}
    /\ lastSyncTime = 0
    /\ syncCalls = 0
    /\ syncResult = "none"
    /\ SchemaDetected

NextEntity ==
    \/ \E k \in 1..2 : syncGroupToDatabase(Me, k)
    \/ SyncGroupAnswered(Me)
    \/ SignIn(Me)
    \/ Offline(Me)
    \/ Online(Me)

SpecEntity == InitEntity /\ [][NextEntity]_vars

-----------------------------------------------------------------------------
(* Properties of syncGroupToDatabase (SpecEntity) *)

\* C12: a call of syncGroupToDatabase made offline, without a client or
\* without a user raises at once and issues no request; a call whose upsert
\* was requested ends either with the record, which the upsert has then
\* written, or by raising, and then nothing was written: no failure is
\* answered with a value.
C12_SyncGroupSurfacesFailure ==
    [][\A u \in Users :
        /\ (lastCall'[u].op = "syncGroup" /\ calls' # calls
              /\ (isOffline[u] \/ ~hasClient[u] \/ ~hasUser[u]))
             => /\ pc'[u] = "idle" /\ result'[u] = "cannot_sync"
                /\ sent' = sent /\ syncedRows' = syncedRows
        /\ (lastCall[u].op = "syncGroup" /\ pc[u] = "sg_upsert" /\ pc'[u] = "idle")
             => /\ result'[u] \in Raised \cup {"ok"}
                /\ result'[u] = "ok" => snap[u].req \in syncedRows'
                /\ result'[u] \in Raised => syncedRows' = syncedRows]_vars

\* a call has raised because its upsert answered without a record, after a
\* call that raised before the user had signed in
C12_Witness ==
    /\ lastCall[Me].op = "syncGroup" /\ lastCall[Me].remote /\ pc[Me] = "idle"
    /\ result[Me] = "no_data" /\ calls = 2
    /\ Cardinality(sent) = 1 /\ syncedRows = {}

-----------------------------------------------------------------------------
(* The saves of the groups: saveToLocalStorage (part_003) and
   saveGroupsToLocalStorageSafe (js/shared-sync.js).  Amounts are multiples
   of 6, so that amount / splitBetween.length is exact for up to 3 names. *)

Amounts == {0, 6, 12}
SplitSets == {{}, {"A", "B"}, {"A", "B", "C"}}

\* the values perPersonAmount can hold for an expense before a save: its
\* share, or 0 as fetchGroupFromDatabase sets it when the row has none
PerPersonBefore(amount, split) ==
    {0} \cup (IF split = {} THEN {} ELSE {amount \div Cardinality(split)})

\* expenses.reduce((sum, exp) => sum + parseFloat(exp.amount || 0), 0)
RECURSIVE SumAmounts(_)
SumAmounts(expenses) ==
    IF Len(expenses) = 0 THEN 0
    ELSE expenses[1].amount + SumAmounts(Tail(expenses))

\* the body of the forEach of saveToLocalStorage for one group
P3_Recompute(group) ==
    IF Len(group.expenses) > 0
    THEN [group EXCEPT
            !.totalExpenses = SumAmounts(group.expenses),
            !.expenses = [k \in DOMAIN group.expenses |->
                            LET exp == group.expenses[k] IN
                            IF exp.splitBetween # {}
                            THEN [exp EXCEPT !.perPersonAmount =
                                    exp.amount \div Cardinality(exp.splitBetween)]
                            ELSE exp]]
    ELSE [group EXCEPT !.totalExpenses = 0]

\* the body of the forEach of saveGroupsToLocalStorageSafe for one group
SafeRecompute(group) ==
    IF Len(group.expenses) > 0
    THEN [group EXCEPT !.totalExpenses = SumAmounts(group.expenses)]
    ELSE [group EXCEPT !.totalExpenses = 0]

\* the expenses and groups a save is given
SaveExpenses ==
    UNION {{[id |-> "e1", supabaseId |-> Null, amount |-> a, splitBetween |-> sp,
             perPersonAmount |-> pp] : pp \in PerPersonBefore(a, sp)} :
              <<a, sp>> \in Amounts \X SplitSets}

SaveGroups ==
    {[id |-> "u1", supabaseId |-> "u1", expenses |-> es, totalExpenses |-> t] :
        es \in {<<>>} \cup {<<e>> : e \in SaveExpenses}, t \in {0, 6}}

\* saveToLocalStorage(): window.groups is recomputed and persisted
P3_SaveGroups(u) ==
    LET groupsToSave == [k \in DOMAIN windowGroups |-> P3_Recompute(windowGroups[k])]
    IN  /\ windowGroups' = groupsToSave
        /\ localGroups' = [localGroups EXCEPT ![u] = groupsToSave]

\* the check of saveToLocalStorage before it schedules the sync
P3_CanSchedule(u) == ~isOffline[u] /\ hasClient[u] /\ hasUser[u] /\ ~isSyncing

\* saveToLocalStorage(): the totals are recomputed, the groups are persisted,
\* and the pending timeout is cleared and set again
P3_saveToLocalStorage(u) ==
    /\ BeginCall(u, "save", Null)
    /\ Return(u, "ok")
    /\ P3_SaveGroups(u)
    /\ syncTimeout' = IF P3_CanSchedule(u) THEN TRUE ELSE syncTimeout
    /\ UNCHANGED <<remoteVars, isOffline, hasClient, hasUser, deleteQueue, now,
                   ghostVars, p3Vars, detVars, pageVars, onlineTimers, isSyncing, pass, sent,
                   syncedRows, lastSyncTime, syncCalls, syncResult, currentGroup>>

\* saveGroupsToLocalStorageSafe(groups)
saveGroupsToLocalStorageSafe(u, groups) ==
    /\ BeginCall(u, "saveSafe", Null)
    /\ Return(u, "ok")
    /\ localGroups' = [localGroups EXCEPT ![u] =
                          [k \in DOMAIN groups |-> SafeRecompute(groups[k])]]
    /\ UNCHANGED <<remoteVars, isOffline, hasClient, hasUser, deleteQueue, now,
                   ghostVars, otherVars>>

\* handleGroupChange / handleExpenseChange: the open group was fetched again,
\* replaces its entry in the persisted groups, and the groups are saved
SaveFetchedGroup(u) ==
    \E updatedGroup \in SaveGroups :
       \E k \in 1..Len(localGroups[u]) :
          /\ localGroups[u][k].id = updatedGroup.id
          /\ saveGroupsToLocalStorageSafe(u, [localGroups[u] EXCEPT ![k] = updatedGroup])

InitSave ==
    /\ members0 = {Creator}
    /\ grp = NewRow(members0, Creator)
    /\ rExpenses = {"e1"}
    /\ isOffline = [u \in Users |-> FALSE]
    /\ hasClient = [u \in Users |-> TRUE]
    /\ hasUser = [u \in Users |-> TRUE]
    /\ pc = [u \in Users |-> "idle"]
    /\ snap = [u \in Users |-> NoSnap]
    /\ result = [u \in Users |-> "none"]
    /\ calls = 0
    /\ lastCall = [u \in Users |-> NoCall]
    /\ afterFirst = [u \in Users |-> NoState]
    /\ deleteQueue = [u \in Users |-> <<>>]
    /\ \E g \in SaveGroups :
         /\ windowGroups = <<g>>
         /\ localGroups = [u \in Users |-> IF u = Me THEN <<SafeRecompute(g)>> ELSE <<>>]
    /\ now = 1
    /\ initiators = {}
    /\ confirmers = {}
    /\ restorers = {}
    /\ pdq = NoPass
    /\ NoTimers
    /\ PageLoaded
    /\ isSyncing = FALSE
    /\ pass = [s \in Passes |-> NoSyncPass]
    /\ sent = {}
    /\ syncedRows = {}
    /\ lastSyncTime = 0
    /\ syncCalls = 0
    /\ syncResult = "none"
    /\ currentGroup = NoGroup
    /\ SchemaDetected

NextSave ==
    \/ P3_saveToLocalStorage(Me)
    \/ SaveFetchedGroup(Me)

SpecSave == InitSave /\ [][NextSave]_vars

\* C11: after a save every persisted group's totalExpenses is the sum of the
\* amounts of its expenses (0 without expenses), and every persisted expense
\* with a non-empty splitBetween of k names has perPersonAmount = amount / k.
C11_SavedTotals ==
    (lastCall[Me].op \in {"save", "saveSafe"})
      => \A k \in 1..Len(localGroups[Me]) :
            LET group == localGroups[Me][k] IN
            /\ group.totalExpenses = SumAmounts(group.expenses)
            /\ \A j \in 1..Len(group.expenses) :
                 LET exp == group.expenses[j] IN
                 exp.splitBetween # {}
                   => exp.perPersonAmount = exp.amount \div Cardinality(exp.splitBetween)

-----------------------------------------------------------------------------
(* syncAllDataToDatabase of js/shared-sync.js on a client whose delete queue
   holds the deletes that were made offline *)

\* the queue after deleteExpenseFromDatabase("e1") was called offline
QueuedExpense == QueuePush(<<>>, "expense", "e1")

\* the queue after deleteGroupFromDatabase("u1") was called offline as well
QueuedBoth == QueuePush(QueuedExpense, "group", GroupId)

InitSyncQ ==
    /\ members0 = {Creator}
    /\ grp = NewRow(members0, Creator)
    /\ rExpenses = {"e1"}
    /\ isOffline \in [Users -> BOOLEAN]
    /\ \A u \in Users \ {Me} : ~isOffline[u]
    /\ hasClient = [u \in Users |-> TRUE]
    /\ hasUser = [u \in Users |-> TRUE]
    /\ pc = [u \in Users |-> "idle"]
    /\ snap = [u \in Users |-> NoSnap]
    /\ result = [u \in Users |-> "none"]
    /\ calls = 0
    /\ lastCall = [u \in Users |-> NoCall]
    /\ afterFirst = [u \in Users |-> NoState]
    /\ now = 1
    /\ \E q \in {<<>>, QueuedExpense} :
         deleteQueue = [u \in Users |-> IF u = Me THEN q ELSE <<>>]
    /\ \E gs \in {<<>>, <<FetchedGroup>>, <<LocalOnlyGroup, FetchedGroup>>} :
         /\ localGroups = [u \in Users |-> IF u = Me THEN gs ELSE <<>>]
         /\ windowGroups = gs
    /\ currentGroup = NoGroup
    /\ initiators = {}
    /\ confirmers = {}
    /\ restorers = {}
    /\ pdq = NoPass
    /\ NoTimers
    /\ PageLoaded
    /\ isSyncing = FALSE
    /\ pass = [s \in Passes |-> NoSyncPass]
    /\ sent = {}
    /\ syncedRows = {}
    /\ lastSyncTime = 0
    /\ syncCalls = 0
    /\ syncResult = "none"
    /\ SchemaDetected

SpecSyncQ == InitSyncQ /\ [][NextSync]_vars

\* C13: while a call of syncAllDataToDatabase has the upsert of the user, of
\* a group or of an expense requested, the delete queue has been processed in
\* that call: no entry is waiting in it that no queue pass has taken up.
C13_DeletionsFlushedFirst ==
    \A s \in Passes :
       pass[s].pc \in {"user", "group", "expense"}
         => (deleteQueue[Me] = <<>> \/ pdq.items # <<>>)

-----------------------------------------------------------------------------
(* syncAllDataToDatabase, its timers and the connection listeners of
   unnamed/part_003.  One call runs at a time (isSyncing is tested and set
   without an await in between); it is call 1 of pass. *)

P3_QueuePass == [pc |-> "queue", groups |-> <<>>, gi |-> 0, ei |-> 0,
                 req |-> NoRequest, synced |-> {}]

\* await new Promise(resolve => setTimeout(resolve, 100)) after group gi
P3_Pace(groups, gi, synced) ==
    [pc |-> "pace", groups |-> groups, gi |-> gi, ei |-> 0, req |-> NoRequest,
     synced |-> synced]

\* the loop over the groups from group gi on, up to the next await: the end of
\* the call, the pause (syncGroupToDatabase and syncExpenseToDatabase answer
\* null at once offline or without client or user), or the upsert of the group
P3_GroupStart(u, groups, gi, synced) ==
    IF gi > Len(groups) THEN NoSyncPass
    ELSE IF isOffline[u] \/ ~hasClient[u] \/ ~hasUser[u]
    THEN P3_Pace(groups, gi, synced)
    ELSE [pc |-> "group", groups |-> groups, gi |-> gi, ei |-> 0,
          req |-> [table |-> "groups", key |-> groups[gi].id, id |-> groups[gi].id,
                   groupId |-> Null],
          synced |-> synced]

\* the loop over the expenses of group p.gi from expense ei on, up to the next
\* await
P3_ExpenseStart(u, p, ei, synced) ==
    LET group == p.groups[p.gi] IN
    IF ei > Len(group.expenses) \/ isOffline[u] \/ ~hasClient[u] \/ ~hasUser[u]
    THEN P3_Pace(p.groups, p.gi, synced)
    ELSE [pc |-> "expense", groups |-> p.groups, gi |-> p.gi, ei |-> ei,
          req |-> [table |-> "expenses", key |-> group.expenses[ei].id,
                   id |-> group.expenses[ei].id, groupId |-> group.id],
          synced |-> synced]

\* syncUserToDatabase(window.currentUser) and what follows, up to the next
\* await
P3_UserStart(u) ==
    IF isOffline[u] \/ ~hasClient[u]
    THEN P3_GroupStart(u, localGroups[u], 1, {})
    ELSE [pc |-> "user", groups |-> <<>>, gi |-> 0, ei |-> 0,
          req |-> [table |-> "users", key |-> u, id |-> u, groupId |-> Null],
          synced |-> {}]

\* the call goes on to p: its request, if it has one, is sent; NoSyncPass is
\* the end of the call, through finally { isSyncing = false }
P3_Continue(p) ==
    /\ pass' = [pass EXCEPT ![1] = p]
    /\ sent' = IF p.req = NoRequest THEN sent ELSE sent \cup {p.req}
    /\ isSyncing' = (p.pc # "idle")

\* isSyncing || isOffline || !supabaseClient || !currentUser
P3_CannotSync(u) == isSyncing \/ isOffline[u] \/ ~hasClient[u] \/ ~hasUser[u]

\* syncAllDataToDatabase() up to its first await: processDeleteQueue() up to
\* its first delete, or with an empty queue the upsert of the user
P3_SyncAll(u) ==
    IF P3_CannotSync(u)
    THEN UNCHANGED <<isSyncing, pass, sent, pdq, deleteQueue>>
    ELSE IF Len(deleteQueue[u]) = 0
    THEN /\ pdq' = NoPass
         /\ UNCHANGED deleteQueue
         /\ P3_Continue(P3_UserStart(u))
    ELSE LET r == P3_Loop([NoPass EXCEPT !.items = deleteQueue[u], !.i = 1],
                          deleteQueue[u], isOffline[u], hasClient[u])
         IN  /\ pdq' = r.pdq
             /\ deleteQueue' = [deleteQueue EXCEPT ![u] = r.queue]
             /\ P3_Continue(IF r.pdq.pc = "idle" THEN P3_UserStart(u) ELSE P3_QueuePass)

\* the timeout that saveToLocalStorage has set fires
P3_DebounceFires(u) ==
    /\ syncTimeout
    /\ syncTimeout' = FALSE
    /\ P3_SyncAll(u)
    /\ UNCHANGED <<remoteVars, isOffline, hasClient, hasUser, pc, snap, result, calls,
                   lastCall, afterFirst, localGroups, now, ghostVars, detVars, pageVars,
                   onlineTimers, syncedRows, lastSyncTime, syncCalls, syncResult,
                   currentGroup, windowGroups>>

\* window 'online' event: the flag is cleared and a timeout of 1 s is set
P3_Online(u) ==
    /\ isOffline[u]
    /\ onlineTimers < MaxTimers
    /\ isOffline' = [isOffline EXCEPT ![u] = FALSE]
    /\ onlineTimers' = onlineTimers + 1
    /\ UNCHANGED <<remoteVars, hasClient, hasUser, pc, snap, result, calls, lastCall,
                   afterFirst, deleteQueue, localGroups, now, ghostVars, p3Vars,
                   syncVars, detVars, pageVars, syncTimeout>>

\* a timeout of the 'online' listener fires
P3_ReconnectFires(u) ==
    /\ onlineTimers > 0
    /\ onlineTimers' = onlineTimers - 1
    /\ IF Len(windowGroups) > 0
       THEN P3_SyncAll(u)
       ELSE UNCHANGED <<isSyncing, pass, sent, pdq, deleteQueue>>
    /\ UNCHANGED <<remoteVars, isOffline, hasClient, hasUser, pc, snap, result, calls,
                   lastCall, afterFirst, localGroups, now, ghostVars, detVars, pageVars,
                   syncTimeout, syncedRows, lastSyncTime, syncCalls, syncResult,
                   currentGroup, windowGroups>>

\* window.forceSyncToDatabase(): the checks of syncAllDataToDatabase, with a
\* notification each, then syncAllDataToDatabase()
P3_forceSyncToDatabase(u) ==
    /\ syncCalls < MaxSyncCalls
    /\ syncCalls' = syncCalls + 1
    /\ P3_SyncAll(u)
    /\ UNCHANGED <<remoteVars, isOffline, hasClient, hasUser, pc, snap, result, calls,
                   lastCall, afterFirst, localGroups, now, ghostVars, detVars, pageVars,
                   timerVars, syncedRows, lastSyncTime, syncResult, currentGroup,
                   windowGroups>>

\* processDeleteQueue() has returned to the call that awaits it
P3_QueueDone == pass[1].pc = "queue" /\ pdq.pc = "idle"

\* the call goes on after await processDeleteQueue()
P3_SyncQueueDone(u) ==
    /\ P3_QueueDone
    /\ P3_Continue(P3_UserStart(u))
    /\ UNCHANGED <<remoteVars, clientVars, now, ghostVars, p3Vars, detVars, pageVars, timerVars,
                   syncedRows, lastSyncTime, syncCalls, syncResult, currentGroup,
                   windowGroups>>

\* what the answer of an upsert leaves in the table: an error is swallowed
P3_Upserted(rows, req, err) == IF err THEN rows ELSE Upsert(rows, req)

\* the upsert of the user answers; the groups are loaded from the local cache
P3_SyncUserUpserted(u) ==
    /\ pass[1].pc = "user"
    /\ \E err \in BOOLEAN :
         syncedRows' = P3_Upserted(syncedRows, pass[1].req, err)
    /\ P3_Continue(P3_GroupStart(u, localGroups[u], 1, {}))
    /\ UNCHANGED <<remoteVars, clientVars, now, ghostVars, p3Vars, detVars, pageVars, timerVars,
                   lastSyncTime, syncCalls, syncResult, currentGroup, windowGroups>>

\* the upsert of group gi answers: syncGroupToDatabase returns the record or
\* null, and the call goes on to the expenses of the group either way
P3_SyncGroupUpserted(u) ==
    /\ pass[1].pc = "group"
    /\ \E err \in BOOLEAN :
         LET p == pass[1]
             synced == IF err THEN p.synced ELSE p.synced \cup {p.gi}
         IN  /\ syncedRows' = P3_Upserted(syncedRows, p.req, err)
             /\ P3_Continue(P3_ExpenseStart(u, p, 1, synced))
    /\ UNCHANGED <<remoteVars, clientVars, now, ghostVars, p3Vars, detVars, pageVars, timerVars,
                   lastSyncTime, syncCalls, syncResult, currentGroup, windowGroups>>

\* the upsert of expense ei answers
P3_SyncExpenseUpserted(u) ==
    /\ pass[1].pc = "expense"
    /\ \E err \in BOOLEAN :
         syncedRows' = P3_Upserted(syncedRows, pass[1].req, err)
    /\ P3_Continue(P3_ExpenseStart(u, pass[1], pass[1].ei + 1, pass[1].synced))
    /\ UNCHANGED <<remoteVars, clientVars, now, ghostVars, p3Vars, detVars, pageVars, timerVars,
                   lastSyncTime, syncCalls, syncResult, currentGroup, windowGroups>>

\* the pause after group gi is over
P3_SyncPaced(u) ==
    /\ pass[1].pc = "pace"
    /\ P3_Continue(P3_GroupStart(u, pass[1].groups, pass[1].gi + 1, pass[1].synced))
    /\ UNCHANGED <<remoteVars, clientVars, now, ghostVars, p3Vars, detVars, pageVars, timerVars,
                   syncedRows, lastSyncTime, syncCalls, syncResult, currentGroup,
                   windowGroups>>

\* the groups of the client
P3_GroupOne ==
    [id |-> "u1", supabaseId |-> Null, totalExpenses |-> 6,
     expenses |-> <<[id |-> "e1", supabaseId |-> Null, amount |-> 6,
                     splitBetween |-> {"A", "B"}, perPersonAmount |-> 3]>>]
P3_GroupTwo ==
    [id |-> "u2", supabaseId |-> Null, totalExpenses |-> 0, expenses |-> <<>>]

InitR ==
    /\ members0 = {Creator}
    /\ grp = NewRow(members0, Creator)
    /\ rExpenses = {"e1"}
    /\ isOffline \in [Users -> BOOLEAN]
    /\ \A u \in Users \ {Me} : ~isOffline[u]
    /\ hasClient = [u \in Users |-> TRUE]
    /\ hasUser = [u \in Users |-> TRUE]
    /\ pc = [u \in Users |-> "idle"]
    /\ snap = [u \in Users |-> NoSnap]
    /\ result = [u \in Users |-> "none"]
    /\ calls = 0
    /\ lastCall = [u \in Users |-> NoCall]
    /\ afterFirst = [u \in Users |-> NoState]
    /\ now = 1
    /\ \E q \in {<<>>, QueuedExpense, QueuedBoth} :
         deleteQueue = [u \in Users |-> IF u = Me THEN q ELSE <<>>]
    /\ \E gs \in {<<>>, <<P3_GroupOne>>, <<P3_GroupOne, P3_GroupTwo>>} :
         /\ localGroups = [u \in Users |-> IF u = Me THEN gs ELSE <<>>]
         /\ windowGroups = gs
    /\ currentGroup = NoGroup
    /\ initiators = {}
    /\ confirmers = {}
    /\ restorers = {}
    /\ pdq = NoPass
    /\ NoTimers
    /\ PageLoaded
    /\ isSyncing = FALSE
    /\ pass = [s \in Passes |-> NoSyncPass]
    /\ sent = {}
    /\ syncedRows = {}
    /\ lastSyncTime = 0
    /\ syncCalls = 0
    /\ syncResult = "none"
    /\ SchemaDetected

\* the call that awaits processDeleteQueue() goes on before any other event
\* is handled
P3_Event(A) == ~P3_QueueDone /\ A

\* the steps of the event loop: timers, answers of requests, the pause
P3_Scheduled ==
    \/ P3_SyncQueueDone(Me)
    \/ P3_Event(P3_DebounceFires(Me))
    \/ P3_Event(P3_ReconnectFires(Me))
    \/ P3_Event(P3_SyncUserUpserted(Me))
    \/ P3_Event(P3_SyncGroupUpserted(Me))
    \/ P3_Event(P3_SyncExpenseUpserted(Me))
    \/ P3_Event(P3_SyncPaced(Me))
    \/ P3_Event(P3_PassExpenseDeleted(Me))
    \/ P3_Event(P3_PassGroupExpenses(Me))
    \/ P3_Event(P3_PassGroupDeleted(Me))

NextR ==
    \/ P3_Scheduled
    \/ P3_Event(P3_saveToLocalStorage(Me))
    \/ P3_Event(P3_forceSyncToDatabase(Me))
    \/ P3_Event(P3_Online(Me))
    \/ P3_Event(Offline(Me))

SpecR == InitR /\ [][NextR]_vars

\* SpecR with the event loop running: a timeout that is pending fires, a
\* request that was sent is answered, a pause ends
SpecRFair ==
    /\ SpecR
    /\ WF_vars(P3_SyncQueueDone(Me))
    /\ WF_vars(P3_Event(P3_DebounceFires(Me)))
    /\ WF_vars(P3_Event(P3_ReconnectFires(Me)))
    /\ WF_vars(P3_Event(P3_SyncUserUpserted(Me)))
    /\ WF_vars(P3_Event(P3_SyncGroupUpserted(Me)))
    /\ WF_vars(P3_Event(P3_SyncExpenseUpserted(Me)))
    /\ WF_vars(P3_Event(P3_SyncPaced(Me)))
    /\ WF_vars(P3_Event(P3_PassExpenseDeleted(Me)))
    /\ WF_vars(P3_Event(P3_PassGroupExpenses(Me)))
    /\ WF_vars(P3_Event(P3_PassGroupDeleted(Me)))

-----------------------------------------------------------------------------
(* Properties of the sync calls of part_003 (SpecR, SpecRFair) *)

\* C14: a call of syncAllDataToDatabase takes the groups in the order of the
\* array, and it requests the upsert of an expense only when the upsert of
\* the expense's group has succeeded in that call: after a failed group
\* upsert none of the group's expenses is pushed.
C14_ExpensesAfterGroup ==
    [][(pass'[1] # pass[1] /\ pass'[1].pc # "idle")
         => /\ pass[1].pc \in {"group", "expense", "pace"}
                 => pass'[1].gi \in {pass[1].gi, pass[1].gi + 1}
            /\ pass'[1].pc = "expense" => pass'[1].gi \in pass'[1].synced]_vars

\* C16: a save made online with client and user leaves the debounced sync
\* scheduled, also when a call of syncAllDataToDatabase is in progress.
C16_SaveSchedulesSync ==
    [][(lastCall'[Me].op = "save" /\ calls' # calls
          /\ ~isOffline[Me] /\ hasClient[Me] /\ hasUser[Me])
         => syncTimeout']_vars

\* the connection has come back with deletes queued and client and user set
Reconnected ==
    /\ onlineTimers > 0 /\ ~isOffline[Me] /\ hasClient[Me] /\ hasUser[Me]
    /\ deleteQueue[Me] # <<>>

\* C17: when the connection has come back with deletes queued, then, unless
\* the connection is lost again, a pass over the queue takes the entries up:
\* the queue is read and emptied by processDeleteQueue.
C17_QueueReplayed ==
    Reconnected ~> (isOffline[Me] \/ deleteQueue[Me] = <<>>)

-----------------------------------------------------------------------------
(* Further properties of the confirmations (SpecDel) *)

\* the step in which u's call of confirmGroupDeletion returns normally
ConfirmSucceeds(u) ==
    /\ lastCall[u].op = "confirm" /\ pc[u] # "idle"
    /\ pc'[u] = "idle" /\ result'[u] = "ok"

\* the local cache gs holds an entry for the group, by local or remote id
Cached(gs) == \E k \in 1..Len(gs) : gs[k].id = GroupId \/ gs[k].supabaseId = GroupId

\* C21: when the confirm of a member other than the creator has returned
\* normally, the member's local cache holds no entry for the group, whether
\* the confirm removed the member from members or deleted the group.
C21_ConfirmPurgesCache ==
    [][\A u \in Users \ {Creator} :
         ConfirmSucceeds(u) => ~Cached(localGroups'[u])]_vars

-----------------------------------------------------------------------------
(* The confirmations of a group that is pending: a member has initiated the
   deletion, and the members call confirmGroupDeletion, each on its own
   client. *)

InitPending ==
    /\ members0 \in {S \in SUBSET Users : Creator \in S /\ Cardinality(S) > 1}
    /\ now = 1
    /\ \E i \in members0 :
         /\ grp = MarkPending(NewRow(members0, Creator), i)
         /\ initiators = {i}
    /\ rExpenses = {"e1"}
    /\ isOffline = [u \in Users |-> FALSE]
    /\ hasClient = [u \in Users |-> TRUE]
    /\ hasUser = [u \in Users |-> TRUE]
    /\ pc = [u \in Users |-> "idle"]
    /\ snap = [u \in Users |-> NoSnap]
    /\ result = [u \in Users |-> "none"]
    /\ calls = 0
    /\ lastCall = [u \in Users |-> NoCall]
    /\ afterFirst = [u \in Users |-> NoState]
    /\ deleteQueue = [u \in Users |-> <<>>]
    /\ localGroups = [u \in Users |->
                        IF u \in members0 THEN <<LocalGroup(GroupId)>> ELSE <<>>]
    /\ confirmers = {}
    /\ restorers = {}
    /\ pdq = NoPass
    /\ NoTimers
    /\ PageLoaded
    /\ SyncIdle
    /\ SchemaDetected

NextPending ==
    \E u \in members0 :
        \/ confirmGroupDeletion(u)
        \/ ConfirmFetched(u)
        \/ ConfirmUpdateConfirmed(u)
        \/ ConfirmUpdateMembers(u)
        \/ ForceDeleteExpenses(u)
        \/ ForceDeleteGroup(u)

SpecPending == InitPending /\ [][NextPending]_vars

\* every member has called confirmGroupDeletion and every call has returned
\* normally
AllConfirmsDone ==
    /\ confirmers = members0
    /\ \A u \in members0 : pc[u] = "idle" /\ result[u] = "ok"

\* C29: once every member of a pending group has called confirm and the last
\* of the calls has returned, the group is deleted, however the reads and
\* writes of the calls were interleaved.
C29_AllConfirmedDeleted == AllConfirmsDone => ~grp.exists

-----------------------------------------------------------------------------
(* The deletion fields of the remote row (SpecDel) *)

\* the deletion fields of the row agree with its pending flag
DeletionFieldsAgree(row) ==
    IF row.pending
    THEN row.initiatedBy # Null /\ row.initiatedBy \in row.confirmedBy
    ELSE row.initiatedBy = Null /\ row.confirmedBy = {}

\* C30: in every remote state of the group that initiate, confirm and restore
\* calls of its members reach, pending = false goes with an empty initiatedBy
\* and an empty confirmedBy, and pending = true with an initiatedBy that is
\* set and is in confirmedBy.
C30_DeletionFieldsAgree == grp.exists => DeletionFieldsAgree(grp)

-----------------------------------------------------------------------------
(* startRealtimeSync and stopRealtimeSync of js/shared-sync.js: the client's
   page calls them synchronously; a channel is named by the order of its
   creation *)

MaxChannels == 3

\* the guard "Don't start multiple subscriptions" is never taken
AlreadySubscribed_never(handle) == FALSE

\* if (window.splitEasySync.realtimeSubscription) return
AlreadySubscribed(handle) == handle # 0

\* window.startRealtimeSync(): err is an exception raised in the try block
\* before the channel is subscribed, which the catch only logs
startRealtimeSync(u) ==
    /\ BeginCall(u, "startRealtime", Null)
    /\ \E err \in BOOLEAN :
         IF ~hasClient[u] \/ ~hasUser[u]
         THEN /\ Return(u, "cannot_start")
              /\ UNCHANGED <<realtimeSubscription, channels, channelCount>>
         ELSE IF AlreadySubscribed(realtimeSubscription)
         THEN /\ Return(u, "already_active")
              /\ UNCHANGED <<realtimeSubscription, channels, channelCount>>
         ELSE IF err
         THEN /\ Return(u, "failed")
              /\ UNCHANGED <<realtimeSubscription, channels, channelCount>>
         ELSE /\ channelCount < MaxChannels
              /\ Return(u, "started")
              /\ channelCount' = channelCount + 1
              /\ channels' = channels \cup {channelCount + 1}
              /\ realtimeSubscription' = channelCount + 1
    /\ UNCHANGED <<remoteVars, isOffline, hasClient, hasUser, deleteQueue, localGroups,
                   now, ghostVars, p3Vars, syncVars, detVars, timerVars,
                   groupsCache, groupsCacheTime, previousUsers,
                   viewVars, authVars>>

\* window.stopRealtimeSync()
stopRealtimeSync(u) ==
    /\ BeginCall(u, "stopRealtime", Null)
    /\ IF realtimeSubscription # 0
       THEN /\ Return(u, "stopped")
            /\ channels' = channels \ {realtimeSubscription}
            /\ realtimeSubscription' = 0
       ELSE /\ Return(u, "not_active")
            /\ UNCHANGED <<realtimeSubscription, channels>>
    /\ UNCHANGED <<remoteVars, isOffline, hasClient, hasUser, deleteQueue, localGroups,
                   now, ghostVars, p3Vars, syncVars, detVars, timerVars,
                   channelCount, groupsCache, groupsCacheTime, previousUsers,
                   viewVars, authVars>>

InitRealtime == InitEntity

NextRealtime ==
    \/ startRealtimeSync(Me)
    \/ stopRealtimeSync(Me)
    \/ SignIn(Me)

SpecRealtime == InitRealtime /\ [][NextRealtime]_vars

\* C22: at most one realtime subscription exists at any time: a start while
\* the handle is set creates no channel, a stop removes the channel of the
\* handle and clears the handle, and a start after a stop that finds a client
\* and a user and does not fail creates a new channel and sets the handle to it.
C22_OneSubscription ==
    [][/\ Cardinality(channels') <= 1
       /\ channels' = IF realtimeSubscription' = 0 THEN {} ELSE {realtimeSubscription'}
       /\ (lastCall'[Me].op = "startRealtime" /\ calls' # calls
             /\ realtimeSubscription # 0)
            => UNCHANGED <<realtimeSubscription, channels, channelCount>>
       /\ (lastCall'[Me].op = "stopRealtime" /\ calls' # calls)
            => realtimeSubscription' = 0 /\ channels' = {}
       /\ (lastCall'[Me].op = "startRealtime" /\ calls' # calls
             /\ lastCall[Me].op = "stopRealtime" /\ result'[Me] = "started")
            => /\ realtimeSubscription' \notin (channels \cup {0})
               /\ realtimeSubscription' > channelCount
               /\ channels' = {realtimeSubscription'}]_vars

\* a subscription was started, stopped and started again
C22_Witness ==
    /\ lastCall[Me].op = "startRealtime" /\ result[Me] = "started"
    /\ channelCount = 2 /\ realtimeSubscription = 2 /\ channels = {2}

-----------------------------------------------------------------------------
(* loadFromLocalStorage of shared-utils (part_005) beside the saves: the
   clock counts seconds, so that CACHE_TTL (1000 ms) is one tick; the store
   holds only what JSON.stringify wrote, so JSON.parse does not fail *)

CACHE_TTL == 1

\* groupsCache && (now - groupsCacheTime) < CACHE_TTL
CacheFresh == groupsCache.set /\ (now - groupsCacheTime) < CACHE_TTL

\* what loadFromLocalStorage() returns to client u
LoadResult(u) == IF CacheFresh THEN groupsCache.data ELSE localGroups[u]

\* loadFromLocalStorage()
loadFromLocalStorage(u) ==
    /\ BeginCall(u, "load", Null)
    /\ Return(u, "ok")
    /\ IF CacheFresh
       THEN UNCHANGED <<groupsCache, groupsCacheTime>>
       ELSE /\ groupsCache' = [set |-> TRUE, data |-> localGroups[u]]
            /\ groupsCacheTime' = now
    /\ UNCHANGED <<remoteVars, isOffline, hasClient, hasUser, deleteQueue, localGroups,
                   now, ghostVars, p3Vars, syncVars, detVars, timerVars,
                   realtimeSubscription, channels, channelCount, previousUsers,
                   viewVars, authVars>>

InitCache == InitSave

NextCache ==
    \/ P3_saveToLocalStorage(Me)
    \/ SaveFetchedGroup(Me)
    \/ loadFromLocalStorage(Me)
    \/ Tick

SpecCache == InitCache /\ [][NextCache]_vars

\* C23: a load issued after any write of the groups returns the data just
\* written, also within the window of the read cache: after a save the read
\* cache never answers with older data than the persistent store holds.
C23_LoadSeesWrite ==
    (lastCall[Me].op \in {"save", "saveSafe"}) => LoadResult(Me) = localGroups[Me]

-----------------------------------------------------------------------------
(* storePreviousUser and removePreviousUser of the sign-in page (part_001):
   the list under spliteasy_previous_users outlives the page, so that a page
   starts with whatever list earlier visits stored; lastUsed is the clock *)

PreviousUsersLimit == 10

\* the ids of the local identities, in the order in which they were created
PrevName == <<"p1", "p2", "p3", "p4", "p5", "p6", "p7", "p8", "p9", "p10",
              "p11", "p12">>

\* the identities that sign in or are removed while the page is open
PrevIds == {"p1", "p5", "p10", "p11", "p12"}

\* the list after the identities 1..n signed in one after the other, before
\* the page was opened
StoredBefore(n) ==
    [k \in 1..n |-> [id |-> PrevName[n + 1 - k], name |-> PrevName[n + 1 - k],
                      lastUsed |-> 0]]

\* no slice: the whole list is kept
KeepRecent_all(list) == list

\* previousUsers.slice(0, 10)
KeepRecent(list) ==
    IF Len(list) > PreviousUsersLimit THEN SubSeq(list, 1, PreviousUsersLimit) ELSE list

\* previousUsers.filter(user => user.id !== id)
WithoutUser(list, id) == LET other(user) == user.id # id IN SelectSeq(list, other)

\* storePreviousUser(userData)
storePreviousUser(u, userData) ==
    /\ BeginCall(u, "storePreviousUser", userData.id)
    /\ Return(u, "ok")
    /\ previousUsers' =
          KeepRecent(<<[id |-> userData.id, name |-> userData.name, lastUsed |-> now]>>
                        \o WithoutUser(previousUsers, userData.id))
    /\ UNCHANGED <<remoteVars, isOffline, hasClient, hasUser, deleteQueue, localGroups,
                   now, ghostVars, p3Vars, syncVars, detVars, timerVars,
                   realtimeSubscription, channels, channelCount, groupsCache,
                   groupsCacheTime,
                   viewVars, authVars>>

\* removePreviousUser(userId, event): confirmed is the answer to confirm(...)
removePreviousUser(u, userId) ==
    /\ BeginCall(u, "removePreviousUser", userId)
    /\ \E confirmed \in BOOLEAN :
         IF confirmed
         THEN /\ Return(u, "removed")
              /\ previousUsers' = WithoutUser(previousUsers, userId)
         ELSE /\ Return(u, "cancelled")
              /\ UNCHANGED previousUsers
    /\ UNCHANGED <<remoteVars, isOffline, hasClient, hasUser, deleteQueue, localGroups,
                   now, ghostVars, p3Vars, syncVars, detVars, timerVars,
                   realtimeSubscription, channels, channelCount, groupsCache,
                   groupsCacheTime,
                   viewVars, authVars>>

InitPrevious ==
    /\ members0 = {Creator}
    /\ grp = NewRow(members0, Creator)
    /\ rExpenses = {}
    /\ isOffline = [u \in Users |-> FALSE]
    /\ hasClient = [u \in Users |-> TRUE]
    /\ hasUser = [u \in Users |-> TRUE]
    /\ pc = [u \in Users |-> "idle"]
    /\ snap = [u \in Users |-> NoSnap]
    /\ result = [u \in Users |-> "none"]
    /\ calls = 0
    /\ lastCall = [u \in Users |-> NoCall]
    /\ afterFirst = [u \in Users |-> NoState]
    /\ deleteQueue = [u \in Users |-> <<>>]
    /\ localGroups = [u \in Users |-> <<>>]
    /\ now = 1
    /\ initiators = {}
    /\ confirmers = {}
    /\ restorers = {}
    /\ pdq = NoPass
    /\ NoTimers
    /\ realtimeSubscription = 0
    /\ channels = {}
    /\ channelCount = 0
    /\ groupsCache = NoCache
    /\ groupsCacheTime = 0
    /\ currentGroupId = Null
    /\ SignUpOpened
    /\ \E n \in {0, PreviousUsersLimit - 1, PreviousUsersLimit} :
         previousUsers = StoredBefore(n)
    /\ SyncIdle
    /\ SchemaDetected

NextPrevious ==
    \/ \E id \in PrevIds : storePreviousUser(Me, [id |-> id, name |-> id])
    \/ \E id \in PrevIds : removePreviousUser(Me, id)
    \/ Tick

SpecPrevious == InitPrevious /\ [][NextPrevious]_vars

\* the list is ordered most-recently-used first
RecentFirst(list) ==
    \A j, k \in 1..Len(list) : j < k => list[j].lastUsed >= list[k].lastUsed

NoTwoSameId(list) ==
    \A j, k \in 1..Len(list) : list[j].id = list[k].id => j = k

\* C27: after any sequence of storePreviousUser and removePreviousUser calls
\* the list has at most 10 entries, no two entries with the same id, is
\* ordered most-recently-used first, and the user stored last is at index 0.
C27_PreviousUsers ==
    [][/\ Len(previousUsers') <= 10
       /\ NoTwoSameId(previousUsers')
       /\ RecentFirst(previousUsers')
       /\ (lastCall'[Me].op = "storePreviousUser" /\ calls' # calls)
            => /\ Len(previousUsers') > 0
               /\ previousUsers'[1].id = lastCall'[Me].id
               /\ previousUsers'[1].lastUsed = now]_vars

\* a full list took a new identity: the identity is first, the list is still
\* full, and the identity used longest ago is gone
C27_Witness ==
    /\ lastCall[Me].op = "storePreviousUser" /\ lastCall[Me].id = "p12"
    /\ Len(previousUsers) = 10
    /\ previousUsers[1].id = "p12"
    /\ \A k \in 1..Len(previousUsers) : previousUsers[k].id # "p1"
    /\ previousUsers[10].id = "p3"

-----------------------------------------------------------------------------
(* syncExpenseToDatabase called on its own (js/shared-sync.js, and the copy
   of part_002), and the ids the entity syncs resolve *)

\* 'xxxxxxxx-xxxx-4xxx-yxxx-xxxxxxxxxxxx'
UuidTemplate ==
    <<"x", "x", "x", "x", "x", "x", "x", "x", "-", "x", "x", "x", "x", "-",
      "4", "x", "x", "x", "-", "y", "x", "x", "x", "-",
      "x", "x", "x", "x", "x", "x", "x", "x", "x", "x", "x", "x">>

\* v.toString(16) for v in 0..15
HexDigit == <<"0", "1", "2", "3", "4", "5", "6", "7", "8", "9",
              "a", "b", "c", "d", "e", "f">>

\* generateUUID() when Math.random() * 16 | 0 is r at every place
generateUUID(r) ==
    [i \in 1..Len(UuidTemplate) |->
        IF UuidTemplate[i] = "x" THEN HexDigit[r + 1]
        ELSE IF UuidTemplate[i] = "y" THEN HexDigit[((r % 4) + 8) + 1]
        ELSE UuidTemplate[i]]

\* /^[0-9a-f]{8}-[0-9a-f]{4}-[0-9a-f]{4}-[0-9a-f]{4}-[0-9a-f]{12}$/i
uuidRegexTest(str) ==
    /\ Len(str) = 36
    /\ \A i \in 1..Len(str) :
         IF i \in {9, 14, 19, 24} THEN str[i] = "-"
         ELSE str[i] \in {HexDigit[v] : v \in 1..16} \cup {"A", "B", "C", "D", "E", "F"}

\* part_002: expense.supabaseId || generateUUID()
P2_ExpenseSupabaseId(expense, fresh) ==
    IF expense.supabaseId # Null THEN expense.supabaseId ELSE fresh

\* syncExpenseToDatabase(expense, groupId) from the resolution of the ids up
\* to its upsert request, for expense j of window.groups[k]; the id is stored
\* on the expense object when it has none
SyncExpenseRequest(u, k, j, id) ==
    LET group == windowGroups[k]
        expense == group.expenses[j]
        req == [table |-> "expenses", key |-> expense.id, id |-> id,
                groupId |-> SupabaseGroupId(group.id, currentGroup, windowGroups)]
    IN  /\ sent' = sent \cup {req}
        /\ windowGroups' =
              IF expense.supabaseId = Null
              THEN [windowGroups EXCEPT ![k].expenses[j].supabaseId = id]
              ELSE windowGroups
        /\ Suspend(u, "se_upsert", [req |-> req])

\* syncExpenseToDatabase(window.groups[k].expenses[j], window.groups[k].id):
\* stored tells whether spliteasy_current_user holds the user
syncExpenseToDatabase(u, k, j) ==
    /\ k \in 1..Len(windowGroups)
    /\ j \in 1..Len(windowGroups[k].expenses)
    /\ schemaChecked
    /\ BeginCall(u, "syncExpense", windowGroups[k].expenses[j].id)
    /\ IF isOffline[u] \/ ~hasClient[u]
       THEN /\ Return(u, "null")
            /\ UNCHANGED <<sent, windowGroups, hasUser>>
       ELSE \E stored \in BOOLEAN :
              /\ hasUser' = [hasUser EXCEPT ![u] = hasUser[u] \/ stored]
              /\ IF ~hasUser'[u]
                 THEN /\ Return(u, "null")
                      /\ UNCHANGED <<sent, windowGroups>>
                 ELSE \E fresh \in UUIDs :
                        SyncExpenseRequest(u, k, j,
                            ExpenseSupabaseId(windowGroups[k].expenses[j], fresh))
    /\ UNCHANGED <<remoteVars, isOffline, hasClient, deleteQueue, localGroups,
                   now, ghostVars, p3Vars, detVars, pageVars, timerVars, isSyncing, pass,
                   syncedRows, lastSyncTime, syncCalls, syncResult, currentGroup>>

\* the group_id the copy of part_002 writes: the lookup in window.groups only
P2_SupabaseGroupId(groupId, gs) ==
    LET found == FindGroup(gs, groupId)
    IN  IF found # NoGroup /\ found.supabaseId # Null THEN found.supabaseId ELSE groupId

\* part_002: syncExpenseToDatabase(window.groups[k].expenses[j], window.groups[k].id)
P2_syncExpenseToDatabase(u, k, j) ==
    /\ k \in 1..Len(windowGroups)
    /\ j \in 1..Len(windowGroups[k].expenses)
    /\ schemaChecked
    /\ BeginCall(u, "syncExpense", windowGroups[k].expenses[j].id)
    /\ IF isOffline[u] \/ ~hasClient[u] \/ ~hasUser[u]
       THEN /\ Return(u, "null")
            /\ UNCHANGED <<sent, windowGroups>>
       ELSE \E fresh \in UUIDs :
              LET group == windowGroups[k]
                  expense == group.expenses[j]
                  id == P2_ExpenseSupabaseId(expense, fresh)
                  req == [table |-> "expenses", key |-> expense.id, id |-> id,
                          groupId |-> P2_SupabaseGroupId(group.id, windowGroups)]
              IN  /\ sent' = sent \cup {req}
                  /\ windowGroups' = [windowGroups EXCEPT ![k].expenses[j].supabaseId = id]
                  /\ Suspend(u, "se_upsert", [req |-> req])
    /\ UNCHANGED <<remoteVars, isOffline, hasClient, hasUser, deleteQueue, localGroups,
                   now, ghostVars, p3Vars, detVars, pageVars, timerVars, isSyncing, pass,
                   syncedRows, lastSyncTime, syncCalls, syncResult, currentGroup>>

\* the upsert of the expense answers: the record is returned, or null after
\* an error or without a record
SyncExpenseAnswered(u) ==
    /\ pc[u] = "se_upsert"
    /\ Request(u)
    /\ \E answer \in UpsertAnswers :
         IF answer = "data"
         THEN /\ Return(u, "ok")
              /\ syncedRows' = Upsert(syncedRows, snap[u].req)
         ELSE /\ Return(u, "null")
              /\ UNCHANGED syncedRows
    /\ UNCHANGED <<remoteVars, isOffline, hasClient, hasUser, calls, afterFirst,
                   deleteQueue, localGroups, now, ghostVars, p3Vars, detVars, pageVars,
                   timerVars, isSyncing, pass, sent, lastSyncTime, syncCalls, syncResult,
                   currentGroup, windowGroups>>

\* a group and an expense that were synced before, beside the other two
SyncedGroup ==
    [id |-> "L2", supabaseId |-> "u2",
     expenses |-> <<[id |-> "x2", supabaseId |-> "e2"]>>]

InitIds ==
    /\ members0 = {Creator}
    /\ grp = NewRow(members0, Creator)
    /\ rExpenses = {"e1"}
    /\ isOffline = [u \in Users |-> FALSE]
    /\ hasClient = [u \in Users |-> TRUE]
    /\ hasUser = [u \in Users |-> TRUE]
    /\ pc = [u \in Users |-> "idle"]
    /\ snap = [u \in Users |-> NoSnap]
    /\ result = [u \in Users |-> "none"]
    /\ calls = 0
    /\ lastCall = [u \in Users |-> NoCall]
    /\ afterFirst = [u \in Users |-> NoState]
    /\ deleteQueue = [u \in Users |-> <<>>]
    /\ \E gs \in {<<LocalOnlyGroup>>, <<FetchedGroup>>, <<SyncedGroup>>,
                  <<LocalOnlyGroup, FetchedGroup>>, <<SyncedGroup, LocalOnlyGroup>>} :
         /\ localGroups = [u \in Users |-> IF u = Me THEN gs ELSE <<>>]
         /\ windowGroups = gs
    /\ currentGroup = NoGroup
    /\ now = 1
    /\ initiators = {}
    /\ confirmers = {}
    /\ restorers = {}
    /\ pdq = NoPass
    /\ NoTimers
    /\ PageLoaded
    /\ isSyncing = FALSE
    /\ pass = [s \in Passes |-> NoSyncPass]
    /\ sent = {}
    /\ syncedRows = {}
    /\ lastSyncTime = 0
    /\ syncCalls = 0
    /\ syncResult = "none"
    /\ SchemaDetected

NextIds ==
    \/ \E k \in 1..2 : syncGroupToDatabase(Me, k)
    \/ SyncGroupAnswered(Me)
    \/ \E k \in 1..2 : syncExpenseToDatabase(Me, k, 1)
    \/ \E k \in 1..2 : P2_syncExpenseToDatabase(Me, k, 1)
    \/ SyncExpenseAnswered(Me)

SpecIds == InitIds /\ [][NextIds]_vars

\* the entities of the groups gs with the local id key
EntitiesOf(gs, table, key) ==
    IF table = "groups"
    THEN {[id |-> gs[k].id, supabaseId |-> gs[k].supabaseId] :
             k \in {i \in 1..Len(gs) : gs[i].id = key}}
    ELSE UNION {{gs[k].expenses[j] :
                    j \in {i \in 1..Len(gs[k].expenses) : gs[k].expenses[i].id = key}} :
                  k \in 1..Len(gs)}

\* the priority of the resolution: before is the entity as it was given,
\* after the entity as the call left it, id the remote id of the request
ResolvedByPriority(before, after, id) ==
    IF before.supabaseId # Null THEN id = before.supabaseId
    ELSE IF IsUUID(before.id) THEN id = before.id
    ELSE IsUUID(id) /\ after.supabaseId = id

\* C26: the remote id a sync of a group or of an expense resolves is the
\* stored remote id if there is one, else the local id if it is UUID-shaped,
\* else a fresh UUID-shaped id that is stored on the entity; what
\* generateUUID returns passes the UUID test of the next resolution.
C26_RemoteIdPriority ==
    [][/\ \A r \in 0..15 : uuidRegexTest(generateUUID(r))
       /\ (calls' # calls /\ pc'[Me] \in {"sg_upsert", "se_upsert"})
            => LET req == snap'[Me].req IN
               \A before \in EntitiesOf(windowGroups, req.table, req.key) :
                 \A after \in EntitiesOf(windowGroups', req.table, req.key) :
                    ResolvedByPriority(before, after, req.id)]_vars

-----------------------------------------------------------------------------
(* The group under which a pass of syncAllDataToDatabase files an expense *)

\* the remote id of the expense's own group: parent is the group the expense
\* belongs to, groupRef the id the call was given, gs the local cache
ParentRemoteId(parent, groupRef, gs) ==
    IF parent.supabaseId # Null THEN parent.supabaseId
    ELSE IF IsUUID(groupRef) THEN groupRef
    ELSE LET found == FindGroup(gs, groupRef)
         IN  IF found # NoGroup /\ found.supabaseId # Null THEN found.supabaseId
             ELSE groupRef

\* C28: the group reference a sync of an expense writes is the remote id of
\* the expense's own group (its stored remote id, else the id given if it is
\* UUID-shaped, else the remote id found in the local cache), whichever group
\* is open in the view.
C28_FiledUnderParent ==
    [][\A s \in Passes :
         (pass'[s].pc = "expense" /\ pass'[s] # pass[s])
           => LET parent == pass'[s].groups[pass'[s].gi]
              IN  pass'[s].req.groupId = ParentRemoteId(parent, parent.id, windowGroups)]_vars

-----------------------------------------------------------------------------
(* The entry points of js/shared-sync.js on a page whose schema was not
   detected yet: every one of them runs its leading checks and then awaits
   detectDatabaseSchema(), which sends the probes when no round is in flight *)

\* the user upsert is attempted without a look at the offline flag
SkipsUserSync_noFlag(u) == ~hasClient[u]

\* syncUserToDatabase: isOffline || !supabaseClient
SkipsUserSync(u) == isOffline[u] \/ ~hasClient[u]

\* the failure of the user upsert is thrown on to the caller
SyncUserFails_raise(reason) == reason

\* syncUserToDatabase: catch (error) { ...; return null }
SyncUserFails(reason) == "null"

\* the record syncUserToDatabase upserts for the user u
UserRequest(u) == [table |-> "users", key |-> u, id |-> u, groupId |-> Null]

\* detectDatabaseSchema() is called with a client and the schema not checked:
\* the stored promise is returned, or the round of probes starts
DetectCalled ==
    IF DetectInFlight(schemaDetectionPromise)
    THEN UNCHANGED <<schemaDetectionPromise, probing, rounds>>
    ELSE /\ rounds < MaxRounds
         /\ rounds' = rounds + 1
         /\ schemaDetectionPromise' = TRUE
         /\ probing' = 1..Len(testQueries)

\* the locals of a call that awaits detectDatabaseSchema()
Awaiting(fn, k, j) == [fn |-> fn, k |-> k, j |-> j]

\* the call of u awaits the detection of the schema
AwaitSchema(u, fn, k, j) ==
    /\ Suspend(u, "detect", Awaiting(fn, k, j))
    /\ DetectCalled

\* syncUserToDatabase(window.currentUser) called on its own
syncUserToDatabase(u) ==
    /\ BeginCall(u, "syncUser", u)
    /\ IF SkipsUserSync(u)
       THEN /\ Return(u, "null")
            /\ UNCHANGED <<schemaDetectionPromise, probing, rounds>>
       ELSE IF schemaChecked
       THEN /\ Suspend(u, "su_upsert", [req |-> UserRequest(u)])
            /\ UNCHANGED <<schemaDetectionPromise, probing, rounds>>
       ELSE AwaitSchema(u, "syncUser", 0, 0)
    /\ UNCHANGED <<remoteVars, isOffline, hasClient, hasUser, deleteQueue, localGroups,
                   now, ghostVars, p3Vars, syncVars, pageVars, timerVars,
                   schemaChecked, SCHEMA_MAPPING, caller, observed>>

\* the upsert of the user answers: the record is returned, or null
SyncUserAnswered(u) ==
    /\ pc[u] = "su_upsert"
    /\ Request(u)
    /\ \E answer \in UpsertAnswers :
         IF answer = "error"
         THEN /\ Return(u, SyncUserFails("request_error"))
              /\ UNCHANGED syncedRows
         ELSE IF answer = "nodata"
         THEN /\ Return(u, "null")
              /\ UNCHANGED syncedRows
         ELSE /\ Return(u, "ok")
              /\ syncedRows' = Upsert(syncedRows, snap[u].req)
    /\ UNCHANGED <<remoteVars, isOffline, hasClient, hasUser, calls, afterFirst,
                   deleteQueue, localGroups, now, ghostVars, p3Vars, detVars, pageVars,
                   timerVars, isSyncing, pass, sent, lastSyncTime, syncCalls, syncResult,
                   currentGroup, windowGroups>>

\* syncGroupToDatabase(window.groups[k]) before the schema was checked
syncGroupUndetected(u, k) ==
    /\ k \in 1..Len(windowGroups)
    /\ ~schemaChecked
    /\ BeginCall(u, "syncGroup", windowGroups[k].id)
    /\ IF isOffline[u] \/ ~hasClient[u] \/ ~hasUser[u]
       THEN /\ Return(u, SyncGroupRaise("cannot_sync"))
            /\ UNCHANGED <<schemaDetectionPromise, probing, rounds>>
       ELSE AwaitSchema(u, "syncGroup", k, 0)
    /\ UNCHANGED <<remoteVars, isOffline, hasClient, hasUser, deleteQueue, localGroups,
                   now, ghostVars, p3Vars, syncVars, pageVars, timerVars,
                   schemaChecked, SCHEMA_MAPPING, caller, observed>>

\* syncExpenseToDatabase(expense j of window.groups[k]) before the schema was
\* checked
syncExpenseUndetected(u, k, j) ==
    /\ k \in 1..Len(windowGroups)
    /\ j \in 1..Len(windowGroups[k].expenses)
    /\ ~schemaChecked
    /\ BeginCall(u, "syncExpense", windowGroups[k].expenses[j].id)
    /\ IF isOffline[u] \/ ~hasClient[u]
       THEN /\ Return(u, "null")
            /\ UNCHANGED <<hasUser, schemaDetectionPromise, probing, rounds>>
       ELSE \E stored \in BOOLEAN :
              /\ hasUser' = [hasUser EXCEPT ![u] = hasUser[u] \/ stored]
              /\ IF ~hasUser'[u]
                 THEN /\ Return(u, "null")
                      /\ UNCHANGED <<schemaDetectionPromise, probing, rounds>>
                 ELSE AwaitSchema(u, "syncExpense", k, j)
    /\ UNCHANGED <<remoteVars, isOffline, hasClient, deleteQueue, localGroups,
                   now, ghostVars, p3Vars, syncVars, pageVars, timerVars,
                   schemaChecked, SCHEMA_MAPPING, caller, observed>>

\* deleteExpenseFromDatabase(expenseId) before the schema was checked
deleteExpenseUndetected(u, expenseId) ==
    /\ ~schemaChecked
    /\ IF expenseId = EmptyId \/ isOffline[u] \/ ~hasClient[u]
       THEN deleteExpenseFromDatabase(u, expenseId)
       ELSE /\ BeginCall(u, "deleteExpense", expenseId)
            /\ AwaitSchema(u, "deleteExpense", 0, 0)
            /\ UNCHANGED <<remoteVars, isOffline, hasClient, hasUser, deleteQueue,
                           localGroups, now, ghostVars, p3Vars, syncVars, pageVars,
                           timerVars, schemaChecked, SCHEMA_MAPPING, caller, observed>>

\* deleteGroupFromDatabase(groupId) before the schema was checked
deleteGroupUndetected(u, groupId) ==
    /\ ~schemaChecked
    /\ IF groupId = EmptyId \/ isOffline[u] \/ ~hasClient[u]
       THEN deleteGroupFromDatabase(u, groupId)
       ELSE /\ BeginCall(u, "deleteGroup", groupId)
            /\ AwaitSchema(u, "deleteGroup", 0, 0)
            /\ UNCHANGED <<remoteVars, isOffline, hasClient, hasUser, deleteQueue,
                           localGroups, now, ghostVars, p3Vars, syncVars, pageVars,
                           timerVars, schemaChecked, SCHEMA_MAPPING, caller, observed>>

\* the detection is over and the call of u goes on to its first request
SchemaAwaited(u) ==
    /\ pc[u] = "detect"
    /\ schemaChecked
    /\ LET fn == snap[u].fn
           k == snap[u].k
           j == snap[u].j
       IN  IF fn = "syncUser"
           THEN /\ Suspend(u, "su_upsert", [req |-> UserRequest(u)])
                /\ UNCHANGED <<sent, windowGroups>>
           ELSE IF fn = "syncGroup"
           THEN \E fresh \in UUIDs :
                  LET id == GroupSupabaseId(windowGroups[k], fresh)
                      req == [table |-> "groups", key |-> windowGroups[k].id,
                              id |-> id, groupId |-> Null]
                  IN  /\ sent' = sent \cup {req}
                      /\ windowGroups' = [windowGroups EXCEPT ![k].supabaseId = id]
                      /\ Suspend(u, "sg_upsert", [req |-> req])
           ELSE IF fn = "syncExpense"
           THEN \E fresh \in UUIDs :
                  SyncExpenseRequest(u, k, j,
                      ExpenseSupabaseId(windowGroups[k].expenses[j], fresh))
           ELSE IF fn = "deleteExpense"
           THEN /\ Suspend(u, "dx_delete", NoSnap)
                /\ UNCHANGED <<sent, windowGroups>>
           ELSE /\ Suspend(u, "del_fetch", NoSnap)
                /\ UNCHANGED <<sent, windowGroups>>
    /\ UNCHANGED <<remoteVars, isOffline, hasClient, hasUser, calls, lastCall, afterFirst,
                   deleteQueue, localGroups, now, ghostVars, p3Vars, detVars, pageVars,
                   timerVars, isSyncing, pass, syncedRows, lastSyncTime, syncCalls,
                   syncResult, currentGroup>>

\* syncAllDataToDatabase() before the schema was checked: its checks, the
\* flag, then await detectDatabaseSchema()
syncAllUndetected(u) ==
    /\ ~schemaChecked
    /\ syncCalls < MaxSyncCalls
    /\ syncCalls' = syncCalls + 1
    /\ IF CannotSync(u)
       THEN /\ syncResult' = IF isSyncing THEN "already_syncing" ELSE "cannot_sync"
            /\ UNCHANGED <<isSyncing, pass, schemaDetectionPromise, probing, rounds>>
       ELSE /\ \E s \in Passes :
                 /\ pass[s].pc = "idle"
                 /\ \A r \in Passes : pass[r].pc = "idle" => s <= r
                 /\ pass' = [pass EXCEPT ![s].pc = "detect"]
            /\ isSyncing' = TRUE
            /\ syncResult' = "started"
            /\ DetectCalled
    /\ UNCHANGED <<remoteVars, clientVars, now, ghostVars, p3Vars, pageVars, timerVars,
                   sent, syncedRows, lastSyncTime, currentGroup, windowGroups,
                   schemaChecked, SCHEMA_MAPPING, caller, observed>>

\* the detection is over and the call s goes on: syncUserToDatabase is
\* called, and skipped offline or without a client; then the groups are loaded
SyncAllDetected(u, s) ==
    /\ pass[s].pc = "detect"
    /\ schemaChecked
    /\ IF SkipsUserSync(u)
       THEN LET groups == localGroups[u]
            IN  IF Len(groups) = 0
                THEN /\ SyncEnd(s)
                     /\ UNCHANGED sent
                ELSE SyncGroupStart(u, s, groups, 1)
       ELSE /\ pass' = [pass EXCEPT ![s].pc = "user", ![s].req = UserRequest(u)]
            /\ UNCHANGED <<isSyncing, sent>>
    /\ UNCHANGED <<remoteVars, clientVars, now, ghostVars, p3Vars, detVars, pageVars,
                   timerVars, syncedRows, lastSyncTime, syncCalls, syncResult,
                   currentGroup, windowGroups>>

InitCalls ==
    /\ members0 \in {{Creator}, {Creator, "B"}}
    /\ grp = NewRow(members0, Creator)
    /\ rExpenses = {"e1"}
    /\ isOffline \in [Users -> BOOLEAN]
    /\ \A u \in Users \ {Me} : ~isOffline[u]
    /\ hasClient \in [Users -> BOOLEAN]
    /\ \A u \in Users \ {Me} : hasClient[u]
    /\ hasUser = [u \in Users |-> TRUE]
    /\ pc = [u \in Users |-> "idle"]
    /\ snap = [u \in Users |-> NoSnap]
    /\ result = [u \in Users |-> "none"]
    /\ calls = 0
    /\ lastCall = [u \in Users |-> NoCall]
    /\ afterFirst = [u \in Users |-> NoState]
    /\ deleteQueue = [u \in Users |-> <<>>]
    /\ localGroups = [u \in Users |-> IF u = Me THEN <<LocalOnlyGroup>> ELSE <<>>]
    /\ windowGroups = <<LocalOnlyGroup>>
    /\ currentGroup = NoGroup
    /\ now = 1
    /\ initiators = {}
    /\ confirmers = {}
    /\ restorers = {}
    /\ pdq = NoPass
    /\ NoTimers
    /\ PageLoaded
    /\ isSyncing = FALSE
    /\ pass = [s \in Passes |-> NoSyncPass]
    /\ sent = {}
    /\ syncedRows = {}
    /\ lastSyncTime = 0
    /\ syncCalls = 0
    /\ syncResult = "none"
    /\ schemaChecked = FALSE
    /\ schemaDetectionPromise = FALSE
    /\ SCHEMA_MAPPING = SchemaDefault
    /\ probing = {}
    /\ caller = [c \in Callers |-> "idle"]
    /\ observed = [c \in Callers |-> NoMap]
    /\ rounds = 0

\* the calls of both kinds together are bounded
CallsLeft == calls + syncCalls < MaxSyncCalls

\* the probes are answered in the order in which they were sent
NextProbeAnswered ==
    \E k \in probing : (\A other \in probing : k <= other) /\ ProbeAnswered(k)

NextCalls ==
    \/ CallsLeft /\ syncUserToDatabase(Me)
    \/ SyncUserAnswered(Me)
    \/ CallsLeft /\ syncGroupUndetected(Me, 1)
    \/ CallsLeft /\ syncGroupToDatabase(Me, 1)
    \/ SyncGroupAnswered(Me)
    \/ CallsLeft /\ syncExpenseUndetected(Me, 1, 1)
    \/ CallsLeft /\ syncExpenseToDatabase(Me, 1, 1)
    \/ SyncExpenseAnswered(Me)
    \/ CallsLeft /\ deleteExpenseUndetected(Me, "e1")
    \/ CallsLeft /\ schemaChecked /\ deleteExpenseFromDatabase(Me, "e1")
    \/ DeleteExpenseDeleted(Me)
    \/ CallsLeft /\ deleteGroupUndetected(Me, GroupId)
    \/ CallsLeft /\ schemaChecked /\ deleteGroupFromDatabase(Me, GroupId)
    \/ DeleteGroupFetched(Me)
    \/ DeleteGroupMarked(Me)
    \/ ForceDeleteExpenses(Me)
    \/ ForceDeleteGroup(Me)
    \/ SchemaAwaited(Me)
    \/ CallsLeft /\ syncAllUndetected(Me)
    \/ CallsLeft /\ \E trigger \in Triggers : syncAllDataToDatabase(Me, trigger)
    \/ \E s \in Passes :
         \/ SyncAllDetected(Me, s)
         \/ SyncUserUpserted(Me, s)
         \/ SyncGroupUpserted(Me, s)
         \/ SyncExpenseUpserted(Me, s)
         \/ SyncPaced(Me, s)
    \/ NextProbeAnswered
    \/ Offline(Me)
    \/ Online(Me)

SpecCalls == InitCalls /\ [][NextCalls]_vars

\* a step that sends no probe and no upsert of a group or of an expense
NoRequestSent == sent' = sent /\ rounds' = rounds /\ probing' \subseteq probing

\* C24: a call of syncUser, syncGroup, syncExpense, syncAll, deleteExpense or
\* deleteGroup that is entered while the offline flag is set issues no remote
\* call, the probes of the schema included: the call made by the user is over
\* at once, syncAll starts no pass, and an entity sync that a running pass
\* enters sends nothing.
C24_OfflineNoRemoteCall ==
    [][isOffline[Me] =>
         /\ calls' # calls
              => /\ pc'[Me] = "idle"
                 /\ ~lastCall'[Me].remote
                 /\ NoRequestSent
         /\ syncCalls' # syncCalls
              => /\ pass' = pass
                 /\ NoRequestSent
         /\ \A s \in Passes :
              pass'[s] # pass[s]
                => /\ pass'[s].pc \in {"idle", "pace"}
                   /\ NoRequestSent]_vars

\* a call was entered offline before the schema was detected, and a pass that
\* awaited the detection found the client offline: no probe and no request
\* went out for the call, and the pass is over without one
C24_Witness ==
    /\ isOffline[Me] /\ schemaChecked
    /\ lastCall[Me].op = "syncExpense" /\ ~lastCall[Me].remote
    /\ pc[Me] = "idle" /\ result[Me] = "null"
    /\ syncCalls = 1 /\ syncResult = "started"
    /\ \A s \in Passes : pass[s].pc = "idle"
    /\ sent = {} /\ syncedRows = {}

\* C25: syncUser never raises: offline or without a client it returns null
\* and sends nothing, after a failed upsert it returns null, and a pass whose
\* user upsert failed goes on to sync the first group.
C25_SyncUserNeverRaises ==
    [][/\ (lastCall'[Me].op = "syncUser" /\ pc'[Me] = "idle")
            => result'[Me] \in {"null", "ok"}
       /\ (lastCall'[Me].op = "syncUser" /\ calls' # calls /\ SkipsUserSync(Me))
            => pc'[Me] = "idle" /\ result'[Me] = "null" /\ NoRequestSent
       /\ (pc[Me] = "su_upsert" /\ pc'[Me] = "idle" /\ UserRequest(Me) \notin syncedRows')
            => result'[Me] = "null"
       /\ \A s \in Passes :
            (/\ pass[s].pc = "user" /\ pass'[s].pc # "user"
             /\ UserRequest(Me) \notin syncedRows'
             /\ ~isOffline[Me] /\ hasClient[Me] /\ hasUser[Me]
             /\ Len(localGroups[Me]) > 0)
              => pass'[s].pc = "group" /\ pass'[s].gi = 1]_vars

\* the upsert of a call of syncUser failed and the call returned null, and a
\* pass whose user upsert failed is syncing its first group
C25_Witness ==
    /\ lastCall[Me].op = "syncUser" /\ lastCall[Me].remote
    /\ pc[Me] = "idle" /\ result[Me] = "null"
    /\ UserRequest(Me) \notin syncedRows
    /\ \E s \in Passes : pass[s].pc = "group"

-----------------------------------------------------------------------------
(* confirmGroupDeletion called by the creator of a group whose deletion the
   creator initiated *)

\* the group is pending on the creator's initiative and a member other than
\* the creator has not confirmed
CreatorAlreadyConfirmed ==
    /\ grp.exists /\ grp.pending /\ grp.initiatedBy = Creator
    /\ \E m \in grp.members \ {Creator} : m \notin grp.confirmedBy

\* a step of the creator's call of confirmGroupDeletion
CreatorConfirmStep ==
    /\ pc[Creator] \in {"cf_fetch", "cf_updConfirmed", "cf_updMembers"}
    /\ pc'[Creator] # pc[Creator]

\* C31: a confirm by the creator on a pending group that the creator
\* initiated, while another member has not confirmed, changes nothing: the
\* members, confirmedBy and the pending flag stay, the group is not deleted,
\* and the group stays in the creator's local cache.
C31_CreatorConfirmNoOp ==
    [][(CreatorAlreadyConfirmed /\ CreatorConfirmStep)
         => /\ grp'.exists
            /\ grp'.members = grp.members
            /\ grp'.confirmedBy = grp.confirmedBy
            /\ grp'.pending = grp.pending
            /\ Cached(localGroups[Creator]) => Cached(localGroups'[Creator])]_vars

-----------------------------------------------------------------------------
(* Deletions queued while a pass over the delete queue is running          *)
(* (unnamed/part_003)                                                      *)

\* the remote row an entry of the delete queue names is still there
P3_RowRemains(item, rows, row) ==
    IF item.type = "expense" THEN item.id \in rows
    ELSE item.id = GroupId /\ row.exists

\* the entries of the persisted queue that the running pass did not read at
\* its start
P3_AppendedDuringPass ==
    {deleteQueue[Me][k] : k \in {j \in 1..Len(deleteQueue[Me]) :
                                    ~Queued(pdq.items, deleteQueue[Me][j])}}

\* the step in which a pass over the queue ends
P3_PassEnds == pdq.pc # "idle" /\ pdq'.pc = "idle"

\* C32: when a pass of processDeleteQueue ends, every entry that was appended
\* to the persisted queue during the pass and whose remote row has not been
\* deleted is still in the persisted queue.
C32_AppendedEntryKept ==
    [][P3_PassEnds =>
         \A item \in P3_AppendedDuringPass :
            P3_RowRemains(item, rExpenses', grp') => Queued(deleteQueue'[Me], item)]_vars

-----------------------------------------------------------------------------
(* The delete queue after an online deleteExpense (js/shared-sync.js)      *)

\* the persisted queue q holds an entry of type t for id
QueueHolds(q, t, id) == \E k \in 1..Len(q) : q[k].type = t /\ q[k].id = id

\* the step in which the remote delete of deleteExpenseFromDatabase answers
\* and the call returns without throwing
DeleteExpenseReturnsOk ==
    pc[Me] = "dx_delete" /\ pc'[Me] = "idle" /\ result'[Me] = "ok"

\* C33: when an online deleteExpenseFromDatabase(id) returns without
\* throwing, the persisted delete queue holds no entry of type expense for
\* that id, whether or not the remote delete removed a row.
C33_NoEntryAfterOnlineDelete ==
    [][DeleteExpenseReturnsOk =>
         ~QueueHolds(deleteQueue'[Me], "expense", lastCall[Me].id)]_vars

-----------------------------------------------------------------------------
(* Expenses whose group has no UUID-shaped remote id                       *)

\* pass s issues the upsert of an expense in this step
ExpenseUpsertIssued(s) == pass'[s].pc = "expense" /\ pass'[s] # pass[s]

\* C34: syncExpenseToDatabase issues the upsert of an expense only with a
\* UUID-shaped group reference; an expense whose group has no such id is
\* left out of the pass.
C34_NoUpsertWithoutGroupUuid ==
    [][\A s \in Passes :
         ExpenseUpsertIssued(s) => IsUUID(pass'[s].req.groupId)]_vars

-----------------------------------------------------------------------------
(* The remote store after a physical delete of a group                     *)

\* the step in which the delete of the group row of a force delete answers
\* and deleteGroupFromDatabase returns without throwing
ForceDeleteReturnsOk ==
    pc[Me] = "fd_group" /\ pc'[Me] = "idle" /\ result'[Me] = "ok"

\* C36: when a force delete returns without throwing, the group row is gone
\* and no expense row of the group is left in the remote store.
C36_NothingLeftOfGroup ==
    [][ForceDeleteReturnsOk => (~grp'.exists /\ rExpenses' = {})]_vars

-----------------------------------------------------------------------------
(* The time of the last sync (lastSyncTime, 'lastsynctime')                *)

\* the remote store holds a row pushed for the local entity key of table t
Pushed(rows, t, key) == \E r \in rows : r.table = t /\ r.key = key

\* every group of the list gs and every expense of these groups was pushed
AllPushed(rows, gs) ==
    \A k \in 1..Len(gs) :
       /\ Pushed(rows, "groups", gs[k].id)
       /\ \A j \in 1..Len(gs[k].expenses) :
             Pushed(rows, "expenses", gs[k].expenses[j].id)

\* C38: a step that changes lastSyncTime is the end of a pass of
\* syncAllDataToDatabase whose upserts of every group and of every expense
\* all answered without error.
C38_TimestampOnlyAfterFullPush ==
    [][lastSyncTime' # lastSyncTime =>
         \E s \in Passes :
            /\ pass[s].pc = "pace" /\ pass'[s].pc = "idle"
            /\ AllPushed(syncedRows', pass[s].groups)]_vars

-----------------------------------------------------------------------------
(* The end of a pass of syncAllDataToDatabase: every awaited upsert and the
   200 ms timer of a running pass eventually answer *)

\* the page is online with at most one cached group and no group open
InitFlag ==
    /\ InitSync
    /\ ~isOffline[Me]
    /\ currentGroup = NoGroup
    /\ Len(windowGroups) <= 1

NextFlag ==
    \/ \E trigger \in Triggers : syncAllDataToDatabase(Me, trigger)
    \/ forceSyncToDatabase(Me)
    \/ \E s \in Passes :
         \/ SyncUserUpserted(Me, s)
         \/ SyncGroupUpserted(Me, s)
         \/ SyncExpenseUpserted(Me, s)
         \/ SyncPaced(Me, s)
    \/ Offline(Me)
    \/ Online(Me)

SpecSyncFair ==
    /\ InitFlag /\ [][NextFlag]_vars
    /\ WF_vars(\E s \in Passes : SyncUserUpserted(Me, s))
    /\ WF_vars(\E s \in Passes : SyncGroupUpserted(Me, s))
    /\ WF_vars(\E s \in Passes : SyncExpenseUpserted(Me, s))
    /\ WF_vars(\E s \in Passes : SyncPaced(Me, s))

\* C37: whenever the isSyncing flag is set, the pass that set it eventually
\* ends and the flag is cleared, whether the pass succeeds, fails or finds no
\* groups.
C37_FlagEventuallyCleared == isSyncing ~> ~isSyncing

\* a second call started a pass after the first pass had ended, and that pass
\* has ended with the flag cleared
C37_Witness ==
    /\ syncCalls >= 2
    /\ syncResult = "started"
    /\ ~isSyncing
    /\ \A s \in Passes : pass[s].pc = "idle"

-----------------------------------------------------------------------------
(* handleGroupChange(payload): a change of a group row arrives over the
   realtime channel of client Me (js/shared-sync.js) *)

\* a group of the client that is filed remotely under GroupId: created on the
\* client and synced, or fetched from the remote store
SyncedLocal == [id |-> "L1", supabaseId |-> GroupId, expenses |-> <<>>]
FetchedLocal == [id |-> GroupId, supabaseId |-> GroupId, expenses |-> <<>>]

\* the expenses fetchGroupFromDatabase assembles from the remote rows
FetchedExpenses(rows) ==
    LET present(e) == e \in rows
        ids == SelectSeq(<<"e1", "e2">>, present)
    IN  [k \in 1..Len(ids) |-> [id |-> ids[k], supabaseId |-> Null]]

\* completeGroup of fetchGroupFromDatabase(groupId); expensesError: the
\* select of the expenses failed and the group is assembled without them
CompleteGroup(groupId, rows, expensesError) ==
    [id |-> groupId, supabaseId |-> groupId,
     expenses |-> IF expensesError THEN <<>> ELSE FetchedExpenses(rows)]

\* window.currentGroupId === groupId || (window.currentGroup &&
\* window.currentGroup.id === groupId)
IsCurrentGroup(groupId) ==
    currentGroupId = groupId \/ (currentGroup # NoGroup /\ currentGroup.id = groupId)

\* localGroups.filter(...) of the DELETE branch
WithoutGroup(gs, groupId) ==
    LET other(g) == g.id # groupId /\ g.supabaseId # groupId IN SelectSeq(gs, other)

\* handleGroupChange(payload) up to its first await, or to its end
handleGroupChange(u, eventType, groupId) ==
    /\ BeginCall(u, eventType, groupId)
    /\ IF eventType \in {"UPDATE", "INSERT"}
       THEN /\ IF IsCurrentGroup(groupId)
               THEN IF hasClient[u] THEN Suspend(u, "hg_group", NoSnap)
                    ELSE Return(u, "fetch_error")
               ELSE Return(u, "load_groups")
            /\ UNCHANGED localGroups
       ELSE /\ localGroups' = [localGroups EXCEPT ![u] = WithoutGroup(@, groupId)]
            /\ Return(u, IF IsCurrentGroup(groupId) THEN "leave_page" ELSE "load_groups")
    /\ UNCHANGED <<remoteVars, isOffline, hasClient, hasUser, deleteQueue, now, ghostVars,
                   otherVars>>

\* the select of the group row answers: an error is thrown to the handler,
\* which logs it; no row ends the handler; else the expenses are selected
HandleGroupFetched(u) ==
    /\ pc[u] = "hg_group"
    /\ Request(u)
    /\ \E err \in BOOLEAN :
         IF err THEN Return(u, "fetch_error")
         ELSE IF ~(grp.exists /\ lastCall[u].id = GroupId) THEN Return(u, "not_found")
         ELSE Suspend(u, "hg_expenses", NoSnap)
    /\ UNCHANGED <<remoteVars, isOffline, hasClient, hasUser, calls, afterFirst,
                   deleteQueue, localGroups, now, ghostVars, otherVars>>

\* the select of the expenses answers: the fetched group replaces the entry
\* of the persisted groups with its id, and window.currentGroup if that has
\* its id
HandleExpensesFetched(u) ==
    /\ pc[u] = "hg_expenses"
    /\ Request(u)
    /\ \E expensesError \in BOOLEAN :
         LET groupId == lastCall[u].id
             updatedGroup == CompleteGroup(groupId, rExpenses, expensesError)
             hits == {k \in 1..Len(localGroups[u]) : localGroups[u][k].id = groupId}
         IN  /\ localGroups' =
                  IF hits = {} THEN localGroups
                  ELSE [localGroups EXCEPT
                          ![u][CHOOSE k \in hits : \A j \in hits : k <= j] = updatedGroup]
             /\ currentGroup' =
                  IF currentGroup # NoGroup /\ currentGroup.id = groupId
                  THEN updatedGroup ELSE currentGroup
    /\ Return(u, "reloaded")
    /\ UNCHANGED <<remoteVars, isOffline, hasClient, hasUser, calls, afterFirst,
                   deleteQueue, now, ghostVars, p3Vars, detVars, timerVars, pageVars,
                   isSyncing, pass, sent, syncedRows, lastSyncTime, syncCalls,
                   syncResult, windowGroups>>

\* the client holds a group filed under GroupId and another group; the first
\* one may be open in the view
InitEvent ==
    /\ members0 = {Creator}
    /\ grp = NewRow(members0, Creator)
    /\ rExpenses \in SUBSET ExpenseIds
    /\ isOffline = [u \in Users |-> FALSE]
    /\ hasClient = [u \in Users |-> TRUE]
    /\ hasUser = [u \in Users |-> TRUE]
    /\ pc = [u \in Users |-> "idle"]
    /\ snap = [u \in Users |-> NoSnap]
    /\ result = [u \in Users |-> "none"]
    /\ calls = 0
    /\ lastCall = [u \in Users |-> NoCall]
    /\ afterFirst = [u \in Users |-> NoState]
    /\ deleteQueue = [u \in Users |-> <<>>]
    /\ \E g \in {SyncedLocal, FetchedLocal} :
         /\ localGroups = [u \in Users |-> IF u = Me THEN <<g, SyncedGroup>> ELSE <<>>]
         /\ windowGroups = <<g, SyncedGroup>>
         /\ currentGroup \in {NoGroup, g}
         /\ currentGroupId \in IF currentGroup = NoGroup THEN {Null}
                               ELSE {Null, g.id, g.supabaseId}
    /\ now = 1
    /\ initiators = {}
    /\ confirmers = {}
    /\ restorers = {}
    /\ pdq = NoPass
    /\ NoTimers
    /\ realtimeSubscription = 0
    /\ channels = {}
    /\ channelCount = 0
    /\ groupsCache = NoCache
    /\ groupsCacheTime = 0
    /\ previousUsers = <<>>
    /\ SignUpOpened
    /\ isSyncing = FALSE
    /\ pass = [s \in Passes |-> NoSyncPass]
    /\ sent = {}
    /\ syncedRows = {}
    /\ lastSyncTime = 0
    /\ syncCalls = 0
    /\ syncResult = "none"
    /\ SchemaDetected

NextEvent ==
    \/ \E eventType \in {"INSERT", "UPDATE", "DELETE"}, groupId \in UUIDs :
         handleGroupChange(Me, eventType, groupId)
    \/ HandleGroupFetched(Me)
    \/ HandleExpensesFetched(Me)

SpecEvent == InitEvent /\ [][NextEvent]_vars

\* the group the event names is the one open in the view
EventForOpenGroup(groupId) ==
    /\ currentGroup # NoGroup
    /\ currentGroup.id = groupId \/ currentGroup.supabaseId = groupId

\* C35: an insert or update event for the group open in the view (the event's
\* id is the open group's local id or its remote id) starts a fetch of the
\* group, and when the fetch answers with the group, the entry of the group
\* in the local cache is the fetched state; an event for any other group
\* only refreshes the list: no fetch is started and the local cache is left
\* as it is.
C35_EventRefresh ==
    [][/\ (pc[Me] = "idle" /\ lastCall'[Me].op \in {"INSERT", "UPDATE"}
             /\ calls' = calls + 1)
          => IF EventForOpenGroup(lastCall'[Me].id)
             THEN pc'[Me] = "hg_group"
             ELSE /\ pc'[Me] = "idle"
                  /\ result'[Me] = "load_groups"
                  /\ localGroups' = localGroups
       /\ (pc[Me] = "hg_expenses" /\ result'[Me] = "reloaded" /\ pc'[Me] = "idle"
             /\ EventForOpenGroup(lastCall[Me].id))
          => \E k \in 1..Len(localGroups'[Me]), expensesError \in BOOLEAN :
                localGroups'[Me][k] =
                   CompleteGroup(lastCall[Me].id, rExpenses, expensesError)]_vars

-----------------------------------------------------------------------------
(* detectDatabaseSchema() of unnamed/part_002: two candidate column names
   are probed for most fields, and all probes run in parallel *)

P2_SchemaDefault ==
    [users |-> [id |-> "id", name |-> "name", createdAt |-> "created_at",
                updatedAt |-> "updated_at"],
     groups |-> [id |-> "id", name |-> "name", createdBy |-> "created_by",
                 updatedBy |-> "updated_by", members |-> "members",
                 createdAt |-> "created_at", updatedAt |-> "updated_at"],
     expenses |-> [id |-> "id", groupId |-> "group_id", description |-> "description",
                   amount |-> "amount", paidBy |-> "paid_by",
                   splitBetween |-> "split_between", createdBy |-> "created_by",
                   createdAt |-> "created_at", updatedAt |-> "updated_at",
                   perPersonAmount |-> "per_person_amount"]]

P2_testQueries ==
    <<[table |-> "users", column |-> "createdat", mapping |-> "createdAt"],
      [table |-> "users", column |-> "created_at", mapping |-> "createdAt"],
      [table |-> "users", column |-> "updatedat", mapping |-> "updatedAt"],
      [table |-> "users", column |-> "updated_at", mapping |-> "updatedAt"],
      [table |-> "groups", column |-> "createdby", mapping |-> "createdBy"],
      [table |-> "groups", column |-> "created_by", mapping |-> "createdBy"],
      [table |-> "groups", column |-> "createdat", mapping |-> "createdAt"],
      [table |-> "groups", column |-> "created_at", mapping |-> "createdAt"],
      [table |-> "groups", column |-> "members", mapping |-> "members"],
      [table |-> "groups", column |-> "updated_by", mapping |-> "updatedBy"],
      [table |-> "groups", column |-> "updated_at", mapping |-> "updatedAt"],
      [table |-> "expenses", column |-> "groupid", mapping |-> "groupId"],
      [table |-> "expenses", column |-> "group_id", mapping |-> "groupId"],
      [table |-> "expenses", column |-> "paidby", mapping |-> "paidBy"],
      [table |-> "expenses", column |-> "paid_by", mapping |-> "paidBy"]>>

\* the columns of the remote tables: the snake_case names, and in the users
\* table the older created column next to the new one
RemoteColumns ==
    {<<"users", "createdat">>, <<"users", "created_at">>, <<"users", "updated_at">>,
     <<"groups", "created_by">>, <<"groups", "created_at">>, <<"groups", "members">>,
     <<"groups", "updated_by">>, <<"groups", "updated_at">>,
     <<"expenses", "group_id">>, <<"expenses", "paid_by">>}

\* select(test.column).limit(1) answers without error
ProbeSucceeds(test) == <<test.table, test.column>> \in RemoteColumns

\* detectDatabaseSchema() is called: the stored promise, or a resolved one, or
\* a round of parallel probes
P2_detectDatabaseSchema(c) ==
    /\ caller[c] # "awaiting"
    /\ IF DetectInFlight(schemaDetectionPromise)
       THEN /\ caller' = [caller EXCEPT ![c] = "awaiting"]
            /\ UNCHANGED <<schemaDetectionPromise, probing, observed, rounds>>
       ELSE IF schemaChecked \/ ~hasClient[Me]
       THEN /\ caller' = [caller EXCEPT ![c] = "returned"]
            /\ observed' = [observed EXCEPT ![c] = SCHEMA_MAPPING]
            /\ UNCHANGED <<schemaDetectionPromise, probing, rounds>>
       ELSE /\ rounds < MaxRounds
            /\ rounds' = rounds + 1
            /\ schemaDetectionPromise' = TRUE
            /\ probing' = 1..Len(P2_testQueries)
            /\ caller' = [caller EXCEPT ![c] = "awaiting"]
            /\ UNCHANGED observed
    /\ UNCHANGED <<remoteVars, clientVars, now, ghostVars, p3Vars, syncVars, pageVars,
                   timerVars, schemaChecked, SCHEMA_MAPPING>>

\* probe k answers: if (!error) SCHEMA_MAPPING[table][mapping] = column; with
\* the last answer Promise.all resolves and the round is over
P2_ProbeAnswered(k) ==
    /\ k \in probing
    /\ probing' = probing \ {k}
    /\ LET test == P2_testQueries[k] IN
       SCHEMA_MAPPING' = IF ProbeSucceeds(test)
                         THEN [SCHEMA_MAPPING EXCEPT
                                 ![test.table][test.mapping] = test.column]
                         ELSE SCHEMA_MAPPING
    /\ IF probing' = {}
       THEN /\ schemaChecked' = TRUE
            /\ schemaDetectionPromise' = FALSE
            /\ caller' = [c \in Callers |->
                            IF caller[c] = "awaiting" THEN "returned" ELSE caller[c]]
            /\ observed' = [c \in Callers |->
                              IF caller[c] = "awaiting" THEN SCHEMA_MAPPING'
                              ELSE observed[c]]
       ELSE UNCHANGED <<schemaChecked, schemaDetectionPromise, caller, observed>>
    /\ UNCHANGED <<remoteVars, clientVars, now, ghostVars, p3Vars, syncVars, pageVars,
                   timerVars, rounds>>

InitProbes ==
    /\ members0 = {Creator}
    /\ grp = NewRow(members0, Creator)
    /\ rExpenses = {}
    /\ isOffline = [u \in Users |-> FALSE]
    /\ hasClient = [u \in Users |-> TRUE]
    /\ hasUser = [u \in Users |-> TRUE]
    /\ pc = [u \in Users |-> "idle"]
    /\ snap = [u \in Users |-> NoSnap]
    /\ result = [u \in Users |-> "none"]
    /\ calls = 0
    /\ lastCall = [u \in Users |-> NoCall]
    /\ afterFirst = [u \in Users |-> NoState]
    /\ deleteQueue = [u \in Users |-> <<>>]
    /\ localGroups = [u \in Users |-> <<>>]
    /\ now = 1
    /\ initiators = {}
    /\ confirmers = {}
    /\ restorers = {}
    /\ pdq = NoPass
    /\ NoTimers
    /\ PageLoaded
    /\ SyncIdle
    /\ schemaChecked = FALSE
    /\ schemaDetectionPromise = FALSE
    /\ SCHEMA_MAPPING = P2_SchemaDefault
    /\ probing = {}
    /\ caller = [c \in Callers |-> "idle"]
    /\ observed = [c \in Callers |-> NoMap]
    /\ rounds = 0

NextProbes ==
    \/ P2_detectDatabaseSchema(1)
    \/ \E k \in 1..Len(P2_testQueries) : P2_ProbeAnswered(k)

SpecProbes == InitProbes /\ [][NextProbes]_vars

\* the candidates of field mapping of table t, by their place in the list
Candidates(t, mapping) ==
    {k \in 1..Len(P2_testQueries) :
        /\ P2_testQueries[k].table = t
        /\ P2_testQueries[k].mapping = mapping
        /\ ProbeSucceeds(P2_testQueries[k])}

\* the column of the first candidate of the list that the remote table has
FirstCandidate(t, mapping) ==
    P2_testQueries[CHOOSE k \in Candidates(t, mapping) :
                      \A j \in Candidates(t, mapping) : k <= j].column

\* C39: when the round of probes is over, every field that has a candidate
\* in the remote table is mapped to the first such candidate of the list,
\* whatever the order of the answers.
C39_FirstCandidateWins ==
    schemaChecked =>
       \A k \in 1..Len(P2_testQueries) :
          LET test == P2_testQueries[k] IN
          Candidates(test.table, test.mapping) # {}
            => SCHEMA_MAPPING[test.table][test.mapping]
                 = FirstCandidate(test.table, test.mapping)

-----------------------------------------------------------------------------
(* The sign-up form of unnamed/part_001: the input listener, its timeout,
   checkUserIdAvailability() and createUser().  A user id is the sequence of
   its characters. *)

AlphaNumeric == {"a", "b", "c", "d", "1"}

\* the values typed into the field, trimmed
TypedIds == {<<>>, <<"a", "b">>, <<"a", "-", "c">>, <<"a", "b", "c">>, <<"a", "b", "d">>}

\* the ids of the remote users table
TakenIds == {<<"a", "b", "d">>}

\* /^[a-zA-Z0-9]{3,20}$/.test(userId)
isValidUserId(userId) ==
    /\ Len(userId) >= 3
    /\ Len(userId) <= 20
    /\ \A k \in 1..Len(userId) : userId[k] \in AlphaNumeric

\* previousUsers.some(user => user.id.toLowerCase() === userId.toLowerCase())
LocalExists(userId) == \E k \in 1..Len(previousUsers) : previousUsers[k].id = userId

\* the 'input' listener of setupUserIdInput: the field holds value
userIdInputEvent(value) ==
    /\ value # userIdInput
    /\ userIdInput' = value
    /\ isUserIdAvailable' = FALSE
    /\ availableFor' = <<>>
    /\ userIdCheckTimeout' = IF Len(value) >= 3 /\ isValidUserId(value)
                             THEN TRUE ELSE userIdCheckTimeout
    /\ UNCHANGED <<remoteVars, clientVars, now, ghostVars, p3Vars, syncVars, detVars,
                   timerVars, realtimeSubscription, channels, channelCount,
                   groupsCache, groupsCacheTime, previousUsers, viewVars, idChecks,
                   createdUser>>

\* the timeout of the listener fires: checkUserIdAvailability() up to its
\* await of checkUserIdExists(userId), which answers at once without a
\* request when the client is offline or has no client object
checkUserIdAvailability(u) ==
    /\ userIdCheckTimeout
    /\ userIdCheckTimeout' = FALSE
    /\ LET userId == userIdInput IN
       IF userId = <<>> \/ ~isValidUserId(userId)
       THEN UNCHANGED <<isUserIdAvailable, availableFor, idChecks>>
       ELSE IF LocalExists(userId)
       THEN /\ isUserIdAvailable' = FALSE
            /\ availableFor' = <<>>
            /\ UNCHANGED idChecks
       ELSE IF isOffline[u] \/ ~hasClient[u]
       THEN /\ isUserIdAvailable' = TRUE
            /\ availableFor' = userId
            /\ UNCHANGED idChecks
       ELSE /\ idChecks' = idChecks \cup {userId}
            /\ UNCHANGED <<isUserIdAvailable, availableFor>>
    /\ UNCHANGED <<remoteVars, clientVars, now, ghostVars, p3Vars, syncVars, detVars,
                   timerVars, realtimeSubscription, channels, channelCount,
                   groupsCache, groupsCacheTime, previousUsers, viewVars, userIdInput,
                   createdUser>>

\* checkUserIdExists(userId) answers (an error counts as "does not exist")
\* and checkUserIdAvailability goes on with the userId it was started for
UserIdChecked(userId) ==
    /\ userId \in idChecks
    /\ idChecks' = idChecks \ {userId}
    /\ \E err \in BOOLEAN :
         LET exists == ~err /\ userId \in TakenIds IN
         /\ isUserIdAvailable' = ~exists
         /\ availableFor' = IF exists THEN <<>> ELSE userId
    /\ UNCHANGED <<remoteVars, clientVars, now, ghostVars, p3Vars, syncVars, detVars,
                   timerVars, realtimeSubscription, channels, channelCount,
                   groupsCache, groupsCacheTime, previousUsers, viewVars, userIdInput,
                   userIdCheckTimeout, createdUser>>

\* createUser() passes its three checks
CreateProceeds(userName, userId) ==
    /\ userName # ""
    /\ userId # <<>> /\ isValidUserId(userId)
    /\ isUserIdAvailable

\* createUser(): with the checks passed the user is created remotely (err:
\* that failed), stored as the current user and put first in the previous
\* users
createUser(u, userName) ==
    /\ calls < MaxCalls
    /\ calls' = calls + 1
    /\ LET userId == userIdInput IN
       \E err \in BOOLEAN :
         IF CreateProceeds(userName, userId) /\ ~err
         THEN /\ createdUser' = userId
              /\ hasUser' = [hasUser EXCEPT ![u] = TRUE]
              /\ previousUsers' =
                   KeepRecent(<<[id |-> userId, name |-> userName, lastUsed |-> now]>>
                                 \o WithoutUser(previousUsers, userId))
         ELSE UNCHANGED <<createdUser, hasUser, previousUsers>>
    /\ UNCHANGED <<remoteVars, isOffline, hasClient, pc, snap, result, lastCall,
                   afterFirst, deleteQueue, localGroups, now, ghostVars, p3Vars,
                   syncVars, detVars, timerVars, realtimeSubscription, channels,
                   channelCount, groupsCache, groupsCacheTime, viewVars, userIdInput,
                   isUserIdAvailable, userIdCheckTimeout, idChecks, availableFor>>

InitSignUp ==
    /\ members0 = {Creator}
    /\ grp = NoRow
    /\ rExpenses = {}
    /\ isOffline \in [Users -> BOOLEAN]
    /\ \A u \in Users \ {Me} : ~isOffline[u]
    /\ hasClient = [u \in Users |-> TRUE]
    /\ hasUser = [u \in Users |-> FALSE]
    /\ pc = [u \in Users |-> "idle"]
    /\ snap = [u \in Users |-> NoSnap]
    /\ result = [u \in Users |-> "none"]
    /\ calls = 0
    /\ lastCall = [u \in Users |-> NoCall]
    /\ afterFirst = [u \in Users |-> NoState]
    /\ deleteQueue = [u \in Users |-> <<>>]
    /\ localGroups = [u \in Users |-> <<>>]
    /\ now = 1
    /\ initiators = {}
    /\ confirmers = {}
    /\ restorers = {}
    /\ pdq = NoPass
    /\ NoTimers
    /\ PageLoaded
    /\ SyncIdle
    /\ SchemaDetected

NextSignUp ==
    \/ \E value \in TypedIds : userIdInputEvent(value)
    \/ checkUserIdAvailability(Me)
    \/ \E userId \in TypedIds : UserIdChecked(userId)
    \/ \E userName \in {"", "Ann"} : createUser(Me, userName)
    \/ Offline(Me)
    \/ Online(Me)

SpecSignUp == InitSignUp /\ [][NextSignUp]_vars

\* C40: createUser stores a user id only if the availability check that set
\* isUserIdAvailable was made for the id that is in the input field when
\* createUser runs.
C40_CreatesCheckedIdOnly ==
    [][createdUser' # createdUser => availableFor = createdUser']_vars
=============================================================================
